---- MODULE Spec2Model ----
(***************************************************************************)
(* Model of leejianyang/ta-assistant.                                      *)
(* src/scraper.py:                                                         *)
(*   - get_output_dir_by_date : date bucketing in Europe/London            *)
(*   - goto_with_retry        : navigation with retry and classification   *)
(*   - main                   : the run loop, the index and its file       *)
(* src/summary.py:                                                         *)
(*   - generate_summary       : the completion call with its retries       *)
(*   - main                   : the digest of one date                     *)
(* src/send.py:                                                            *)
(*   - main                   : the webhook post with its retries          *)
(***************************************************************************)
EXTENDS Integers, Sequences, FiniteSets, TLC

VARIABLES
    \* ---- get_output_dir_by_date ----
    raw,          \* the raw date string, as what the three regexes (and the ISO one) find in it
    now,          \* datetime.now(): the current instant, UTC
    padYear,      \* whether the platform's strftime("%Y") pads the year to 4 digits
    folder,       \* the value of folder_date returned (digits), <<>> before the call
    \* ---- goto_with_retry ----
    navPc,        \* "idle", "loop", "returned", "raised"
    max_retries,  \* the parameter of the call in progress
    attempt,      \* the loop variable of `for attempt in range(max_retries)`
    gotoCalls,    \* number of page.goto invocations of the call in progress
    navReturn,    \* the value returned (TRUE / FALSE), or NoValue
    lastOutcome,  \* what the last attempt found (an element of Outcomes), or NoValue
    allTransient, \* history: every attempt of this call ended in a transient outcome
    \* ---- main ----
    pc,           \* position of the run
    indexFile,    \* content of articles/index.json on disk
    index,        \* the in-memory index of the run
    loadedIndex,  \* history: the index as load_index returned it at run start
    articles,     \* the URLs get_article_links returned, in order
    new_articles, \* the URLs to fetch in this run, in order
    i,            \* position in new_articles (1-based, as enumerate(new_articles, 1))
    article_data, \* the record extract_article_content returned for new_articles[i]
    files,        \* article files on disk: a set of [dir, name, url]
    fetched,      \* history: URLs navigated to in this run
    addedThisRun, \* history: URLs added to the in-memory index in this run
    written,      \* history: URLs whose article file was written in this run
    errored,      \* history: URLs of this run whose record carried an error field
    runNo,        \* number of the run (also the clock of datetime.now().isoformat())
    lastErrorAt,  \* history: position of the last article handled with an error field
    \* ---- summary.py: generate_summary ----
    gsPc,         \* "idle", "loop", "returned", "raised"
    gsAttempt,    \* the loop variable of `for attempt in range(MAX_RETRIES)`
    gsCalls,      \* number of client.chat.completions.create calls of the call in progress
    gsLast,       \* what the last create call met (an element of ApiOutcomes)
    gsAllTransient, \* history: every create call of this call failed with a transient error
    gsValue,      \* the (summary, tokens) returned
    \* ---- summary.py: main ----
    sumPc,        \* position of the summary run
    sum_articles, \* the articles load_articles returned, in order
    sumIdx,       \* position in sum_articles (1-based)
    articles_with_summary, \* the entries collected so far
    total_tokens, \* the running token count
    digestFile,   \* content of summary/<date>_summary.txt on disk
    digestAtStart,\* history: the digest file as the run found it
    apiSent,      \* history: positions of the articles sent to the completion API in this run
    exitCode,     \* exit status of the last summary run, or NoValue
    sumRunNo,     \* number of summary runs started
    \* ---- send.py: main ----
    sendPc,       \* "idle", "loop", "done", "raised"
    sendAttempt,  \* the loop variable of `for attempt in range(1, max_retries + 1)`
    posts,        \* number of send_to_feishu calls of the run
    slept,        \* seconds spent in time.sleep by the run
    last_error,   \* the last URLError caught, "" for None
    sendRaised,   \* the exception that ended the run, NoException for none
    sendRuns,     \* number of runs of send.py started
    postLog,      \* history: what each send_to_feishu call of the run met, in order
    \* ---- get_article_links ----
    linkPc,       \* "idle", "returned"
    all_links,    \* the anchors page.locator(...).all() returned, in page order
    link_articles,\* the list returned
    linkFrom,     \* history: for each entry returned, the position of the anchor it was taken from
    \* ---- extract_article_content: the paragraphs ----
    paraPc,       \* "idle", "returned"
    page_paras,   \* the p elements under the content container, in page order
    paragraphs,   \* the texts collected, in order
    paraFrom,     \* history: for each text collected, the position of its p element
    fallbackRan,  \* history: the fallback strategy was run
    primaryFound, \* history: number of paragraphs the primary strategy collected
    \* ---- get_output_dir_by_date: the time of day ----
    clockIn,      \* what time_pattern found in the raw date
    clockHour,    \* the 24-hour hour computed, -1 before the call
    clockMinute   \* the minute computed, -1 before the call

dateVars == <<raw, now, padYear, folder>>
navVars  == <<navPc, max_retries, attempt, gotoCalls, navReturn, lastOutcome, allTransient>>
runVars  == <<pc, indexFile, index, loadedIndex, articles, new_articles, i, article_data,
              files, fetched, addedThisRun, written, errored, runNo, lastErrorAt>>
gsVars   == <<gsPc, gsAttempt, gsCalls, gsLast, gsAllTransient, gsValue>>
sumVars  == <<sumPc, sum_articles, sumIdx, articles_with_summary, total_tokens,
              digestFile, digestAtStart, apiSent, exitCode, sumRunNo>>
sendVars == <<sendPc, sendAttempt, posts, slept, last_error, sendRaised, sendRuns, postLog>>
linkVars == <<linkPc, all_links, link_articles, linkFrom>>
paraVars == <<paraPc, page_paras, paragraphs, paraFrom, fallbackRan, primaryFound>>
clockVars == <<clockIn, clockHour, clockMinute>>
\* what the actions of summary.py and of send.py leave alone
notSummary == <<dateVars, navVars, runVars, sendVars, linkVars, paraVars, clockVars>>
notSend    == <<dateVars, navVars, runVars, gsVars, sumVars, linkVars, paraVars, clockVars>>
\* what the calls of get_article_links, of the paragraph extraction and of the time
\* conversion on their own leave alone
notLinks   == <<dateVars, navVars, runVars, gsVars, sumVars, sendVars, paraVars, clockVars>>
notParas   == <<dateVars, navVars, runVars, gsVars, sumVars, sendVars, linkVars, clockVars>>
notClock   == <<dateVars, navVars, runVars, gsVars, sumVars, sendVars, linkVars, paraVars>>
\* the variables of the programs other than the scraper
auxVars  == <<gsVars, sumVars, sendVars, linkVars, paraVars, clockVars>>
vars     == <<raw, now, padYear, folder,
              navPc, max_retries, attempt, gotoCalls, navReturn, lastOutcome, allTransient,
              pc, indexFile, index, loadedIndex, articles, new_articles, i, article_data,
              files, fetched, addedThisRun, written, errored, runNo, lastErrorAt,
              gsPc, gsAttempt, gsCalls, gsLast, gsAllTransient, gsValue,
              sumPc, sum_articles, sumIdx, articles_with_summary, total_tokens,
              digestFile, digestAtStart, apiSent, exitCode, sumRunNo,
              sendPc, sendAttempt, posts, slept, last_error, sendRaised, sendRuns, postLog,
              linkPc, all_links, link_articles, linkFrom,
              paraPc, page_paras, paragraphs, paraFrom, fallbackRan, primaryFound,
              clockIn, clockHour, clockMinute>>

NoValue == "none"

(***************************************************************************)
(* Calendar arithmetic of datetime (proleptic Gregorian ordinals).         *)
(***************************************************************************)
MINYEAR == 1
MAXYEAR == 9999

IsLeap(y) == (y % 4 = 0) /\ ((y % 100 # 0) \/ (y % 400 = 0))

DaysInMonth(y, m) ==
    IF m = 2 THEN (IF IsLeap(y) THEN 29 ELSE 28)
    ELSE IF m \in {4, 6, 9, 11} THEN 30 ELSE 31

RECURSIVE DaysBeforeMonth(_, _)
DaysBeforeMonth(y, m) ==
    IF m = 1 THEN 0 ELSE DaysBeforeMonth(y, m - 1) + DaysInMonth(y, m - 1)

DaysBeforeYear(y) ==
    (y - 1) * 365 + ((y - 1) \div 4) - ((y - 1) \div 100) + ((y - 1) \div 400)

\* date.toordinal(): 0001-01-01 is day 1
ToOrdinal(y, m, d) == DaysBeforeYear(y) + DaysBeforeMonth(y, m) + d

MaxOrdinal == ToOrdinal(MAXYEAR, 12, 31)

\* date.fromordinal(): the inverse, as <<year, month, day>>
FromOrdinal(n) ==
    LET n0   == n - 1
        n400 == n0 \div 146097
        r400 == n0 % 146097
        n100 == r400 \div 36524
        r100 == r400 % 36524
        n4   == r100 \div 1461
        r4   == r100 % 1461
        n1   == r4 \div 365
        y0   == n400 * 400 + 1 + n100 * 100 + n4 * 4 + n1
    IN  IF n1 = 4 \/ n100 = 4
        THEN <<y0 - 1, 12, 31>>
        ELSE LET doy == n - DaysBeforeYear(y0)
                 m   == CHOOSE mm \in 1..12 :
                            /\ DaysBeforeMonth(y0, mm) < doy
                            /\ doy <= DaysBeforeMonth(y0, mm) + DaysInMonth(y0, mm)
             IN  <<y0, m, doy - DaysBeforeMonth(y0, m)>>

\* date.weekday(): Monday is 0, Sunday is 6
Weekday(n) == (n + 6) % 7

\* ordinal of the last Sunday of month m of year y
LastSunday(y, m) ==
    LET last == ToOrdinal(y, m, DaysInMonth(y, m))
    IN  last - ((Weekday(last) + 1) % 7)

(***************************************************************************)
(* A datetime is [ord, sod]: ordinal day and second of the day.  The       *)
(* constructor and the arithmetic raise ("ValueError", "OverflowError")    *)
(* outside year 1..9999, as datetime does.                                 *)
(***************************************************************************)
Raised == [exc |-> TRUE]

IsRaised(x) == x = Raised

\* datetime(year, month, day, hour, minute)
Datetime(y, m, d, h, mi) ==
    IF /\ y \in MINYEAR..MAXYEAR
       /\ m \in 1..12
       /\ d >= 1 /\ d <= DaysInMonth(y, m)
       /\ h \in 0..23
       /\ mi \in 0..59
    THEN [ord |-> ToOrdinal(y, m, d), sod |-> h * 3600 + mi * 60]
    ELSE Raised

InRange(ord) == ord >= 1 /\ ord <= MaxOrdinal

\* dt - timedelta(hours = hrs)
MinusHoursFlip(dt, hrs) ==
    LET h0   == (dt.sod \div 3600) + hrs
        ord1 == dt.ord + (h0 \div 24)
    IN  IF InRange(ord1)
        THEN [ord |-> ord1, sod |-> (h0 % 24) * 3600 + (dt.sod % 3600)]
        ELSE Raised

MinusHours(dt, hrs) ==
    LET h0   == (dt.sod \div 3600) - hrs
        ord1 == dt.ord + (h0 \div 24)
    IN  IF InRange(ord1)
        THEN [ord |-> ord1, sod |-> (h0 % 24) * 3600 + (dt.sod % 3600)]
        ELSE Raised

\* dt + seconds, for |seconds| below one day
PlusSeconds(dt, secs) ==
    LET s0   == dt.sod + secs
        ord1 == dt.ord + (s0 \div 86400)
    IN  IF InRange(ord1)
        THEN [ord |-> ord1, sod |-> s0 % 86400]
        ELSE Raised

(***************************************************************************)
(* ZoneInfo("Europe/London").  The model covers the two ends of the zone's *)
(* table: local mean time (-0:01:15) before 1847-12-01, and the rule       *)
(* GMT0BST,M3.5.0/1,M10.5.0 from 1996 on.  The dates the model draws lie   *)
(* in those two periods (DateYears, NowInstants).                          *)
(***************************************************************************)
LMTEnd == ToOrdinal(1847, 12, 1)

LondonUtcOffset(utc) ==
    IF utc.ord < LMTEnd
    THEN 0 - 75
    ELSE LET y        == FromOrdinal(utc.ord)[1]
             bstStart == LastSunday(y, 3)
             bstEnd   == LastSunday(y, 10)
             after(o) == utc.ord > o \/ (utc.ord = o /\ utc.sod >= 3600)
         IN  IF after(bstStart) /\ ~after(bstEnd) THEN 3600 ELSE 0

\* dt_utc.astimezone(london_tz), as the local wall-clock datetime
AsLondon(utc) == PlusSeconds(utc, LondonUtcOffset(utc))

(***************************************************************************)
(* Text: a string of digits is a sequence of 0..9.                         *)
(***************************************************************************)
RECURSIVE DigitsToInt(_)
\* int("0206") = 206
DigitsToInt(ds) ==
    IF ds = <<>> THEN 0
    ELSE DigitsToInt(SubSeq(ds, 1, Len(ds) - 1)) * 10 + ds[Len(ds)]

RECURSIVE IntDigits(_)
\* format(n, "d") for n >= 0: no padding
IntDigits(n) ==
    IF n < 10 THEN <<n>> ELSE IntDigits(n \div 10) \o <<n % 10>>

RECURSIVE ZeroPad(_, _)
\* format(n, "0<w>d"): padded with zeros up to width w, never truncated
ZeroPad(ds, w) == IF Len(ds) >= w THEN ds ELSE ZeroPad(<<0>> \o ds, w)

Pad2(n) == ZeroPad(IntDigits(n), 2)

\* dt.strftime("%Y%m%d"); %Y is padded to 4 digits or not, by platform
Strftime(dt, pad) ==
    LET ymd == FromOrdinal(dt.ord)
        yy  == IF pad THEN ZeroPad(IntDigits(ymd[1]), 4) ELSE IntDigits(ymd[1])
    IN  yy \o Pad2(ymd[2]) \o Pad2(ymd[3])

\* f"{year}{month:02d}{day:02d}"
RawYmd(year, month, day) == IntDigits(year) \o Pad2(month) \o Pad2(day)

(***************************************************************************)
(* get_output_dir_by_date                                                  *)
(***************************************************************************)
\* a regex that found nothing (re.search returned None)
NoMatch == [m |-> FALSE]
\* folder_date = None
NoFolder == <<>>

month_map ==
    [jan |-> 1, feb |-> 2, mar |-> 3, apr |-> 4, may |-> 5, jun |-> 6,
     jul |-> 7, aug |-> 8, sep |-> 9, oct |-> 10, nov |-> 11, dec |-> 12]

\* date_match.group(1)[:3].lower(), on the month words the model draws
MonthWords == {"Feb", "March", "OCT", "Dec", "Jan", "Updated"}
month_abbr(word) ==
    [Feb |-> "feb", March |-> "mar", OCT |-> "oct", Dec |-> "dec",
     Jan |-> "jan", Updated |-> "upd"][word]

\* time_match.group(3).lower()
am_pm(word) ==
    [am |-> "am", AM |-> "am", Am |-> "am", pm |-> "pm", PM |-> "pm", Pm |-> "pm"][word]

\* lines 114-123: the hour in 24-hour form
Hour24NoNoon(h, ap) ==
    IF ap = "pm" THEN h + 12
    ELSE IF ap = "am" /\ h = 12 THEN 0
    ELSE h

Hour24(h, ap) ==
    IF ap = "pm" /\ h # 12 THEN h + 12
    ELSE IF ap = "am" /\ h = 12 THEN 0
    ELSE h

\* lines 112-123: hour and minute of what time_pattern found, 0 and 0 without a match
ParsedHour(time) ==
    IF ~time.m THEN 0 ELSE Hour24(DigitsToInt(time.hour), am_pm(time.ampm))

ParsedMinute(time) ==
    IF ~time.m THEN 0 ELSE DigitsToInt(time.minute)

\* lines 126-130
TzOffsetHours(tz) ==
    IF ~tz.m THEN 0
    ELSE IF tz.sign = "+" THEN DigitsToInt(tz.off) ELSE 0 - DigitsToInt(tz.off)

\* lines 169-172: today in London
TodayUtc(nw, pad) == Strftime(nw, pad)

Today(nw, pad) == Strftime(AsLondon(nw), pad)

\* lines 103-152: the structured parse; NoFolder when it sets no folder_date
StructuredDate(r, pad) ==
    IF ~r.date.m THEN NoFolder
    ELSE LET abbr == month_abbr(r.date.mon)
             day  == DigitsToInt(r.date.day)
             year == DigitsToInt(r.date.year)
         IN  IF abbr \notin DOMAIN month_map THEN NoFolder
             ELSE LET month  == month_map[abbr]
                      hour   == ParsedHour(r.time)
                      minute == ParsedMinute(r.time)
                      off    == TzOffsetHours(r.tz)
                      naive  == Datetime(year, month, day, hour, minute)
                      utc    == IF IsRaised(naive) THEN Raised ELSE MinusHours(naive, off)
                      london == IF IsRaised(utc) THEN Raised ELSE AsLondon(utc)
                  IN  IF IsRaised(london)
                      THEN RawYmd(year, month, day)
                      ELSE Strftime(london, pad)

\* lines 155-167: the ISO-like fallback
IsoDate(r, pad) ==
    IF ~r.iso.m THEN NoFolder
    ELSE LET utc    == Datetime(DigitsToInt(r.iso.y), DigitsToInt(r.iso.m2),
                                DigitsToInt(r.iso.d), 0, 0)
             london == IF IsRaised(utc) THEN Raised ELSE AsLondon(utc)
         IN  IF IsRaised(london)
             THEN r.iso.y \o r.iso.m2 \o r.iso.d
             ELSE Strftime(london, pad)

\* the folder_date of get_output_dir_by_date(date_str)
get_output_dir_by_date(r, nw, pad) ==
    IF r.absent THEN Today(nw, pad)
    ELSE LET s == StructuredDate(r, pad)
         IN  IF s # NoFolder THEN s
             ELSE LET iso == IsoDate(r, pad)
                  IN  IF iso # NoFolder THEN iso ELSE Today(nw, pad)

(***************************************************************************)
(* The raw date strings the model draws, given by what the regexes of      *)
(* lines 95, 98, 101 and 156 find in them.                                 *)
(***************************************************************************)
DateDays    == {<<0>>, <<1>>, <<6>>, <<2, 9>>, <<3, 1>>, <<3, 2>>}
DateYears   == {<<0, 0, 0, 0>>, <<0, 0, 0, 1>>, <<2, 0, 2, 4>>, <<2, 0, 2, 6>>, <<9, 9, 9, 9>>}
TimeHours   == {<<1>>, <<1, 1>>, <<1, 2>>, <<1, 3>>}
TimeMinutes == {<<0, 0>>, <<1, 7>>}
AmPmWords   == {"am", "PM"}
TzOffsets   == {<<0>>, <<5>>, <<8>>, <<9, 9, 9, 9, 9, 9, 9, 9>>}

DateMatches == [m : {TRUE}, mon : MonthWords, day : DateDays, year : DateYears]
TimeMatches == [m : {TRUE}, hour : TimeHours, minute : TimeMinutes, ampm : AmPmWords]
TzMatches   == [m : {TRUE}, sign : {"+", "-"}, off : TzOffsets]
IsoMatches  ==
    { [m |-> TRUE, y |-> <<2, 0, 2, 6>>, m2 |-> <<0, 3>>, d |-> <<2, 9>>],
      [m |-> TRUE, y |-> <<2, 0, 2, 6>>, m2 |-> <<1, 3>>, d |-> <<4, 5>>],
      [m |-> TRUE, y |-> <<0, 0, 0, 0>>, m2 |-> <<0, 1>>, d |-> <<0, 1>>] }

AbsentRaw == [absent |-> TRUE, date |-> NoMatch, time |-> NoMatch, tz |-> NoMatch,
              iso |-> NoMatch]

\* a date the structured regex finds, and no ISO-like date beside it
StructuredRaws ==
    [absent : {FALSE}, date : DateMatches, time : TimeMatches \cup {NoMatch},
     tz : TzMatches \cup {NoMatch}, iso : {NoMatch}]

\* no structured date, or one whose month word is no month, or one beside an ISO date
OtherRaws ==
    [absent : {FALSE},
     date : {NoMatch,
             [m |-> TRUE, mon |-> "Updated", day |-> <<6>>, year |-> <<2, 0, 2, 6>>],
             [m |-> TRUE, mon |-> "Feb", day |-> <<6>>, year |-> <<2, 0, 2, 6>>]},
     time : {NoMatch}, tz : {NoMatch}, iso : IsoMatches \cup {NoMatch}]

RawInputs == {AbsentRaw} \cup StructuredRaws \cup OtherRaws

NowInstants == {Datetime(2026, 2, 6, 0, 30), Datetime(2026, 6, 30, 23, 30)}

(***************************************************************************)
(* goto_with_retry                                                         *)
(***************************************************************************)
MAX_RETRIES == 10

\* largest max_retries a direct call of goto_with_retry is given
MaxAttempts == 3

\* line 232: a body of fewer characters is "short"
BodyShort == 500

\* str(e).lower() / page.title().lower() / body_text.lower(), on the texts drawn
Lower(text) ==
    ( "Timeout 120000ms exceeded"   :> "timeout 120000ms exceeded"
   @@ "net::ERR_CONNECTION_RESET"   :> "net::err_connection_reset"
   @@ "Navigation interrupted"      :> "navigation interrupted"
   @@ "Target closed"               :> "target closed"
   @@ "Server Error"                :> "server error"
   @@ "Service Unavailable"         :> "service unavailable"
   @@ "The Athletic"                :> "the athletic"
   @@ "502 Bad Gateway"             :> "502 bad gateway"
   @@ "Something went wrong"        :> "something went wrong"
   @@ "Goals and a late winner"     :> "goals and a late winner"
   @@ "Request timed out."          :> "request timed out."
   @@ "Connection error."           :> "connection error."
   @@ "Gateway Timeout"             :> "gateway timeout"
   @@ "Error code: 401"             :> "error code: 401"
   @@ "'NoneType' object has no attribute 'strip'"
                                    :> "'nonetype' object has no attribute 'strip'"
   @@ ""                            :> "" )[text]

\* needle in text (Python's substring test), on the lowered texts drawn
Contains(text, needle) ==
    <<text, needle>> \in
        { <<"timeout 120000ms exceeded", "timeout">>,
          <<"net::err_connection_reset", "net::">>,
          <<"navigation interrupted", "navigation">>,
          <<"server error", "error">>,
          <<"server error", "server error">>,
          <<"service unavailable", "unavailable">>,
          <<"service unavailable", "service unavailable">>,
          <<"502 bad gateway", "bad gateway">>,
          <<"something went wrong", "something went wrong">>,
          <<"request timed out.", "timed out">>,
          <<"connection error.", "connection">>,
          <<"connection error.", "error">>,
          <<"gateway timeout", "timeout">>,
          <<"gateway timeout", "gateway timeout">>,
          <<"error code: 401", "error">> }

\* lines 234-241
error_phrases ==
    { "internal server error", "something went wrong", "service unavailable",
      "bad gateway", "gateway timeout", "server error" }

\* line 257: the exceptions retried
TransientMarkers == {"timeout", "net::", "navigation"}

\* line 225
TitleMarkers == {"error", "unavailable"}

(***************************************************************************)
(* What one attempt meets: page.goto raises (exc # ""), or returns a       *)
(* response (status, 0 for no response); then the page's title and body,   *)
(* each of which may fail to be read.                                      *)
(***************************************************************************)
ExcMessages == {"Timeout 120000ms exceeded", "net::ERR_CONNECTION_RESET",
                "Navigation interrupted", "Target closed"}
Statuses    == {0, 200, 404, 500, 503}
Titles      == {"Server Error", "Service Unavailable", "The Athletic"}
Bodies      == {"502 Bad Gateway", "Something went wrong", "Goals and a late winner", ""}
BodyLens    == {0, 120, 499, 500, 5000}

NoPage == [titleRaises |-> FALSE, title |-> "", bodyRaises |-> FALSE,
           body |-> "", bodyLen |-> 0]

Pages ==
    { pg \in [titleRaises : BOOLEAN, title : Titles, bodyRaises : BOOLEAN,
               body : Bodies, bodyLen : BodyLens] :
        /\ (pg.titleRaises => pg.title = "The Athletic")
        /\ (pg.bodyRaises => pg.body = "" /\ pg.bodyLen = 0)
        /\ (pg.body = "" <=> pg.bodyLen = 0) }

Outcomes ==
    { [exc |-> e, status |-> 0, page |-> NoPage] : e \in ExcMessages }
    \cup { [exc |-> "", status |-> st, page |-> NoPage] :
               st \in { x \in Statuses : x >= 500 } }
    \cup { [exc |-> "", status |-> st, page |-> pg] :
               st \in { x \in Statuses : x < 500 }, pg \in Pages }

NoOutcome == [exc |-> "", status |-> 0 - 1, page |-> NoPage]

\* line 257
IsTransientExcAll(msg) == TRUE

IsTransientExc(msg) == \E mk \in TransientMarkers : Contains(Lower(msg), mk)

\* line 213
IsServerError(o) == o.status # 0 /\ o.status >= 500

\* lines 222-249: TRUE when the attempt is retried for what the page shows
PageCheckRetries(pg) ==
    IF pg.titleRaises THEN FALSE
    ELSE LET error_in_title == \E mk \in TitleMarkers : Contains(Lower(pg.title), mk)
         IN  IF pg.bodyRaises THEN FALSE
             ELSE LET is_error_page ==
                          /\ pg.bodyLen < BodyShort
                          /\ \E ph \in error_phrases : Contains(Lower(pg.body), ph)
                  IN  error_in_title \/ is_error_page

\* lines 209-263: what one iteration of the loop does
Classify(o) ==
    IF o.exc # ""
    THEN (IF IsTransientExc(o.exc) THEN "retry" ELSE "raise")
    ELSE IF IsServerError(o) THEN "retry"
    ELSE IF PageCheckRetries(o.page) THEN "retry"
    ELSE "success"

\* A disguised error page, by the signals of the page: the title holds a marker, or
\* the body is short and holds an error phrase (whether or not the other signal reads)
DisguisedErrorPage(o) ==
    /\ o.exc = ""
    /\ ~IsServerError(o)
    /\ o.status >= 0
    /\ \/ /\ ~o.page.titleRaises
          /\ \E mk \in TitleMarkers : Contains(Lower(o.page.title), mk)
       \/ /\ ~o.page.bodyRaises
          /\ o.page.bodyLen < BodyShort
          /\ \E ph \in error_phrases : Contains(Lower(o.page.body), ph)

\* history: the attempt ended in one of the three transient outcomes
TransientOutcome(o) ==
    \/ o.exc # "" /\ \E mk \in TransientMarkers : Contains(Lower(o.exc), mk)
    \/ o.exc = "" /\ o.status >= 500
    \/ DisguisedErrorPage(o)

\* one iteration of `for attempt in range(max_retries)`, and the return after the loop
GotoAttempt(o) ==
    /\ navPc = "loop"
    /\ attempt < max_retries
    /\ gotoCalls' = gotoCalls + 1
    /\ lastOutcome' = o
    /\ allTransient' = (allTransient /\ TransientOutcome(o))
    /\ LET c == Classify(o)
       IN  \/ /\ c = "success"
              /\ navPc' = "returned"
              /\ navReturn' = "True"
              /\ attempt' = attempt
           \/ /\ c = "raise"
              /\ navPc' = "raised"
              /\ UNCHANGED <<navReturn, attempt>>
           \/ /\ c = "retry"
              /\ attempt' = attempt + 1
              /\ IF attempt + 1 = max_retries
                 THEN navPc' = "returned" /\ navReturn' = "False"
                 ELSE UNCHANGED <<navPc, navReturn>>
    /\ UNCHANGED max_retries

\* the call goto_with_retry(page, url, n): an empty range returns False at once
GotoCall(n) ==
    /\ max_retries' = n
    /\ attempt' = 0
    /\ gotoCalls' = 0
    /\ lastOutcome' = NoOutcome
    /\ allTransient' = TRUE
    /\ IF n = 0
       THEN navPc' = "returned" /\ navReturn' = "False"
       ELSE navPc' = "loop" /\ navReturn' = NoValue

NavIdle ==
    /\ navPc = "idle"
    /\ max_retries = 0
    /\ attempt = 0
    /\ gotoCalls = 0
    /\ navReturn = NoValue
    /\ lastOutcome = NoOutcome
    /\ allTransient = TRUE

(***************************************************************************)
(* The index and its file (load_index, save_index, is_article_scraped).    *)
(* The in-memory index is a function from URLs to timestamps; the file     *)
(* holds the JSON object as its set of key/value pairs, or is absent, or   *)
(* is the truncated / partly written file that open(..., "w") leaves       *)
(* before json.dump has completed.                                         *)
(***************************************************************************)
URLs == {"u1", "u2"}

\* most links get_article_links returns in the model
MaxLinks == 2

\* most runs of the scraper in the model
MaxRuns == 2

EmptyIndex == [u \in {} |-> 0]

AbsentFile    == [kind |-> "absent", entries |-> {}]
TruncatedFile == [kind |-> "partial", entries |-> {}]

\* json.dump(index, f)
JsonDump(idx) == [kind |-> "json", entries |-> {<<u, idx[u]>> : u \in DOMAIN idx}]

\* lines 179-187
load_index(file) ==
    IF file.kind = "json"
    THEN [u \in {e[1] : e \in file.entries} |->
              (CHOOSE e \in file.entries : e[1] = u)[2]]
    ELSE EmptyIndex

\* lines 196-198
is_article_scraped_never(idx, url) == FALSE

is_article_scraped(idx, url) == url \in DOMAIN idx

(***************************************************************************)
(* extract_article_content and save_article, as main uses them.            *)
(***************************************************************************)
\* the titles the pages of the run show, as their characters: "Win 2!" and "Win__2"
Titles4Run == { <<"W", "i", "n", " ", "2", "!">>, <<"W", "i", "n", "_", "_", "2">> }

\* line 568: the default of article.get("title", "untitled")
Untitled == <<"u", "n", "t", "i", "t", "l", "e", "d">>

\* line 569: c.isalnum(), on the characters drawn
AlnumChars == {"W", "i", "n", "2", "u", "t", "l", "e", "d"}

\* line 571: the cut [:80]
SafeTitleMax == 80

\* line 569: letters, digits and "_" are kept, a space becomes "_", the rest is dropped
KeepChars(title) ==
    LET mapped == [k \in 1..Len(title) |-> IF title[k] = " " THEN "_" ELSE title[k]]
        Kept(c) == c \in AlnumChars \cup {"_"}
    IN  SelectSeq(mapped, Kept)

\* line 571: "_".join(part for part in s.split("_") if part): of each run of "_" one
\* is left, and none at either end
RECURSIVE JoinParts(_, _)
JoinParts(s, k) ==
    IF k > Len(s) THEN <<>>
    ELSE LET keep == \/ s[k] # "_"
                     \/ /\ k < Len(s)
                        /\ s[k + 1] # "_"
                        /\ \E j \in 1..(k - 1) : s[j] # "_"
         IN  (IF keep THEN <<s[k]>> ELSE <<>>) \o JoinParts(s, k + 1)

\* lines 568-572: the file name without ".json"
safe_title(title) ==
    LET joined == JoinParts(KeepChars(title), 1)
    IN  SubSeq(joined, 1, IF Len(joined) < SafeTitleMax THEN Len(joined) ELSE SafeTitleMax)

SafeTitle(rec) == safe_title(IF rec.hasTitle THEN rec.title ELSE Untitled)

NoArticle == [url |-> "", error |-> FALSE, hasTitle |-> FALSE, title |-> <<>>,
              published |-> AbsentRaw]

\* lines 421-425 and 552-556: the record with an error field
ErrorRecord(url) == [NoArticle EXCEPT !.url = url, !.error = TRUE]

\* the published_date texts the run meets
RunRaws ==
    { AbsentRaw,
      [absent |-> FALSE,
       date |-> [m |-> TRUE, mon |-> "Feb", day |-> <<6>>, year |-> <<2, 0, 2, 6>>],
       time |-> [m |-> TRUE, hour |-> <<1, 2>>, minute |-> <<1, 7>>, ampm |-> "am"],
       tz   |-> [m |-> TRUE, sign |-> "+", off |-> <<8>>],
       iso  |-> NoMatch] }

\* lines 439-549: the records a loaded page can yield
ExtractedRecords ==
    { [url |-> "", error |-> FALSE, hasTitle |-> TRUE, title |-> t, published |-> r] :
          t \in Titles4Run, r \in RunRaws }
    \cup { NoArticle }

\* the attempts' outcomes the run meets: one of each class
RunOutcomes ==
    { [exc |-> "Timeout 120000ms exceeded", status |-> 0, page |-> NoPage],
      [exc |-> "Target closed", status |-> 0, page |-> NoPage],
      [exc |-> "", status |-> 503, page |-> NoPage],
      [exc |-> "", status |-> 200,
       page |-> [titleRaises |-> FALSE, title |-> "The Athletic", bodyRaises |-> FALSE,
                 body |-> "Goals and a late winner", bodyLen |-> 5000]] }

\* sequences of distinct URLs, as get_article_links returns them (seen_urls)
RECURSIVE DistinctSeqs(_, _)
DistinctSeqs(S, n) ==
    IF n = 0 THEN {<<>>}
    ELSE LET shorter == DistinctSeqs(S, n - 1)
         IN  shorter \cup
             UNION { { Append(q, u) : u \in S \ {q[k] : k \in 1..Len(q)} } :
                         q \in { q0 \in shorter : Len(q0) = n - 1 } }

LinkLists == DistinctSeqs(URLs, MaxLinks)

SeqRange(q) == {q[k] : k \in 1..Len(q)}

Stopped == {"idle", "done", "aborted", "crashed"}

(***************************************************************************)
(* main, lines 703-808                                                     *)
(***************************************************************************)
\* lines 729-763: load the index, collect the links, filter out the indexed ones
RunStart(links, debug_mode) ==
    /\ pc \in Stopped
    /\ runNo < MaxRuns
    /\ runNo' = runNo + 1
    /\ LET idx     == load_index(indexFile)
           Fresh(u) == ~is_article_scraped(idx, u)
           fresh   == SelectSeq(links, Fresh)
       IN  /\ index' = idx
           /\ loadedIndex' = idx
           /\ articles' = links
           /\ new_articles' = IF debug_mode /\ fresh # <<>> THEN SubSeq(fresh, 1, 1)
                              ELSE fresh
           /\ pc' = IF fresh = <<>> THEN "done" ELSE "loop"
    /\ i' = 1
    /\ article_data' = NoArticle
    /\ fetched' = {}
    /\ addedThisRun' = {}
    /\ written' = {}
    /\ errored' = {}
    /\ lastErrorAt' = 0
    /\ UNCHANGED <<indexFile, files>>
    /\ UNCHANGED dateVars
    /\ UNCHANGED auxVars
    /\ UNCHANGED navVars

\* line 771 -> 420: extract_article_content calls goto_with_retry with the default max_retries
ExtractCall ==
    /\ pc = "loop"
    /\ i <= Len(new_articles)
    /\ GotoCall(MAX_RETRIES)
    /\ fetched' = fetched \cup {new_articles[i]}
    /\ pc' = "nav"
    /\ UNCHANGED <<indexFile, index, loadedIndex, articles, new_articles, i, article_data,
                   files, addedThisRun, written, errored, runNo, lastErrorAt>>
    /\ UNCHANGED dateVars
    /\ UNCHANGED auxVars

\* one attempt of the navigation of the article in progress
NavStep(o) ==
    /\ pc = "nav"
    /\ GotoAttempt(o)
    /\ UNCHANGED runVars
    /\ UNCHANGED dateVars
    /\ UNCHANGED auxVars

ResetNav ==
    /\ navPc' = "idle"
    /\ max_retries' = 0
    /\ attempt' = 0
    /\ gotoCalls' = 0
    /\ navReturn' = NoValue
    /\ lastOutcome' = NoOutcome
    /\ allTransient' = TRUE

\* lines 418-556: the record extract_article_content returns; rec is what the page yields
\* when it loaded, raises tells whether the extraction raised
ExtractReturn(rec, raises) ==
    /\ pc = "nav"
    /\ navPc \in {"returned", "raised"}
    /\ article_data' =
           IF navPc = "raised" \/ navReturn = "False" \/ raises
           THEN ErrorRecord(new_articles[i])
           ELSE [rec EXCEPT !.url = new_articles[i]]
    /\ errored' = IF article_data'.error THEN errored \cup {new_articles[i]} ELSE errored
    /\ pc' = "handle"
    /\ ResetNav
    /\ UNCHANGED <<indexFile, index, loadedIndex, articles, new_articles, i, files,
                   fetched, addedThisRun, written, runNo, lastErrorAt>>
    /\ UNCHANGED dateVars
    /\ UNCHANGED auxVars

\* lines 775-776 and 792: a record with an error field is reported, the loop goes on
HandleErrorStops ==
    /\ pc = "handle"
    /\ article_data.error
    /\ lastErrorAt' = i
    /\ pc' = "aborted"
    /\ UNCHANGED <<indexFile, index, loadedIndex, articles, new_articles, i, article_data,
                   files, fetched, addedThisRun, written, errored, runNo>>
    /\ UNCHANGED dateVars
    /\ UNCHANGED auxVars
    /\ UNCHANGED navVars

HandleError ==
    /\ pc = "handle"
    /\ article_data.error
    /\ lastErrorAt' = i
    /\ i' = i + 1
    /\ pc' = "loop"
    /\ UNCHANGED <<indexFile, index, loadedIndex, articles, new_articles, article_data,
                   files, fetched, addedThisRun, written, errored, runNo>>
    /\ UNCHANGED dateVars
    /\ UNCHANGED auxVars
    /\ UNCHANGED navVars

\* lines 779-783: the directory of the bucket date, then the article file; fsOk is
\* whether mkdir and open succeed (an OSError escapes the loop and main)
SaveArticleIndexFirst(fsOk) ==
    /\ pc = "handle"
    /\ ~article_data.error
    /\ index' = [u \in DOMAIN index \cup {new_articles[i]} |->
                     IF u = new_articles[i] THEN runNo ELSE index[u]]
    /\ addedThisRun' = addedThisRun \cup {new_articles[i]}
    /\ raw' = article_data.published
    /\ folder' = get_output_dir_by_date(article_data.published, now, padYear)
    /\ IF fsOk
       THEN /\ files' = { f \in files : ~(f.dir = folder' /\ f.name = SafeTitle(article_data)) }
                        \cup { [dir |-> folder', name |-> SafeTitle(article_data),
                                url |-> article_data.url] }
            /\ written' = written \cup {article_data.url}
            /\ pc' = "saved"
       ELSE /\ pc' = "aborted"
            /\ UNCHANGED <<files, written>>
    /\ UNCHANGED <<indexFile, loadedIndex, articles, new_articles, i, article_data,
                   fetched, errored, runNo, lastErrorAt>>
    /\ UNCHANGED <<now, padYear>>
    /\ UNCHANGED auxVars
    /\ UNCHANGED navVars

SaveArticle(fsOk) ==
    /\ pc = "handle"
    /\ ~article_data.error
    /\ raw' = article_data.published
    /\ folder' = get_output_dir_by_date(article_data.published, now, padYear)
    /\ IF fsOk
       THEN /\ files' = { f \in files : ~(f.dir = folder' /\ f.name = SafeTitle(article_data)) }
                        \cup { [dir |-> folder', name |-> SafeTitle(article_data),
                                url |-> article_data.url] }
            /\ written' = written \cup {article_data.url}
            /\ pc' = "saved"
       ELSE /\ pc' = "aborted"
            /\ UNCHANGED <<files, written>>
    /\ UNCHANGED <<indexFile, index, loadedIndex, articles, new_articles, i, article_data,
                   fetched, addedThisRun, errored, runNo, lastErrorAt>>
    /\ UNCHANGED <<now, padYear>>
    /\ UNCHANGED auxVars
    /\ UNCHANGED navVars

\* lines 789-792: the URL enters the in-memory index
UpdateIndexRestamps ==
    /\ pc = "saved"
    /\ index' = [u \in DOMAIN index \cup {new_articles[i]} |-> runNo]
    /\ addedThisRun' = addedThisRun \cup {new_articles[i]}
    /\ i' = i + 1
    /\ pc' = "loop"
    /\ UNCHANGED <<indexFile, loadedIndex, articles, new_articles, article_data, files,
                   fetched, written, errored, runNo, lastErrorAt>>
    /\ UNCHANGED dateVars
    /\ UNCHANGED auxVars
    /\ UNCHANGED navVars

UpdateIndex ==
    /\ pc = "saved"
    /\ index' = [u \in DOMAIN index \cup {new_articles[i]} |->
                     IF u = new_articles[i] THEN runNo ELSE index[u]]
    /\ addedThisRun' = addedThisRun \cup {new_articles[i]}
    /\ i' = i + 1
    /\ pc' = "loop"
    /\ UNCHANGED <<indexFile, loadedIndex, articles, new_articles, article_data, files,
                   fetched, written, errored, runNo, lastErrorAt>>
    /\ UNCHANGED dateVars
    /\ UNCHANGED auxVars
    /\ UNCHANGED navVars

\* line 795 -> 192: open(INDEX_FILE, "w") truncates the file
SaveIndexOpen ==
    /\ pc = "loop"
    /\ i > Len(new_articles)
    /\ indexFile' = TruncatedFile
    /\ pc' = "saving"
    /\ UNCHANGED <<index, loadedIndex, articles, new_articles, i, article_data, files,
                   fetched, addedThisRun, written, errored, runNo, lastErrorAt>>
    /\ UNCHANGED dateVars
    /\ UNCHANGED auxVars
    /\ UNCHANGED navVars

\* line 193: json.dump writes the whole mapping, the file is closed, the run ends
SaveIndexWrite ==
    /\ pc = "saving"
    /\ indexFile' = JsonDump(index)
    /\ pc' = "done"
    /\ UNCHANGED <<index, loadedIndex, articles, new_articles, i, article_data, files,
                   fetched, addedThisRun, written, errored, runNo, lastErrorAt>>
    /\ UNCHANGED dateVars
    /\ UNCHANGED auxVars
    /\ UNCHANGED navVars

\* the process dies (kill, power loss): the disk stays as it is
Crash ==
    /\ pc \notin Stopped
    /\ pc' = "crashed"
    /\ ResetNav
    /\ UNCHANGED <<indexFile, index, loadedIndex, articles, new_articles, i, article_data,
                   files, fetched, addedThisRun, written, errored, runNo, lastErrorAt>>
    /\ UNCHANGED dateVars
    /\ UNCHANGED auxVars

RunIdle ==
    /\ pc = "idle"
    /\ indexFile = AbsentFile
    /\ index = EmptyIndex
    /\ loadedIndex = EmptyIndex
    /\ articles = <<>>
    /\ new_articles = <<>>
    /\ i = 1
    /\ article_data = NoArticle
    /\ files = {}
    /\ fetched = {}
    /\ addedThisRun = {}
    /\ written = {}
    /\ errored = {}
    /\ runNo = 0
    /\ lastErrorAt = 0

(***************************************************************************)
(* The initial values of summary.py (no call, no run, no digest file).     *)
(***************************************************************************)
NoApiOutcome == [exc |-> "", hasText |-> FALSE, text |-> "", usage |-> 0 - 1]

NoGsValue == [summary |-> "", tokens |-> 0 - 1]

AbsentDigest == [kind |-> "absent"]

GsIdle ==
    /\ gsPc = "idle"
    /\ gsAttempt = 0
    /\ gsCalls = 0
    /\ gsLast = NoApiOutcome
    /\ gsAllTransient = TRUE
    /\ gsValue = NoGsValue

SumNoRun ==
    /\ sumPc = "idle"
    /\ sum_articles = <<>>
    /\ sumIdx = 1
    /\ articles_with_summary = <<>>
    /\ total_tokens = 0
    /\ digestAtStart = AbsentDigest
    /\ apiSent = {}
    /\ exitCode = NoValue
    /\ sumRunNo = 0

SumIdle ==
    /\ SumNoRun
    /\ digestFile = AbsentDigest

(***************************************************************************)
(* The initial values of send.py.                                          *)
(***************************************************************************)
NoException == [kind |-> "", msg |-> ""]

SendIdle ==
    /\ sendPc = "idle"
    /\ sendAttempt = 1
    /\ posts = 0
    /\ slept = 0
    /\ last_error = ""
    /\ sendRaised = NoException
    /\ sendRuns = 0
    /\ postLog = <<>>

(***************************************************************************)
(* The initial values of the functions of the scraper called on their own. *)
(***************************************************************************)
LinksIdle ==
    /\ linkPc = "idle"
    /\ all_links = <<>>
    /\ link_articles = <<>>
    /\ linkFrom = <<>>

ParasIdle ==
    /\ paraPc = "idle"
    /\ page_paras = <<>>
    /\ paragraphs = <<>>
    /\ paraFrom = <<>>
    /\ fallbackRan = FALSE
    /\ primaryFound = 0

ClockIdle ==
    /\ clockIn = NoMatch
    /\ clockHour = 0 - 1
    /\ clockMinute = 0 - 1

RestIdle ==
    /\ LinksIdle
    /\ ParasIdle
    /\ ClockIdle

AuxIdle ==
    /\ GsIdle
    /\ SumIdle
    /\ SendIdle
    /\ RestIdle

\* the instant and the platform of the runs of the model
RunNow == Datetime(2026, 2, 6, 0, 30)

Init ==
    /\ raw = AbsentRaw
    /\ now = RunNow
    /\ padYear = FALSE
    /\ folder = NoFolder
    /\ NavIdle
    /\ RunIdle
    /\ AuxIdle

Next ==
    \/ \E links \in LinkLists, debug_mode \in BOOLEAN : RunStart(links, debug_mode)
    \/ ExtractCall
    \/ \E o \in RunOutcomes : NavStep(o)
    \/ \E rec \in ExtractedRecords, raises \in BOOLEAN :
           ExtractReturn(rec, raises)
    \/ HandleError
    \/ \E fsOk \in BOOLEAN : SaveArticle(fsOk)
    \/ UpdateIndex
    \/ SaveIndexOpen
    \/ SaveIndexWrite
    \/ Crash

Spec == Init /\ [][Next]_vars

(***************************************************************************)
(* goto_with_retry called on its own, with any max_retries.                *)
(***************************************************************************)
GotoCallDirect(n) ==
    /\ navPc \in {"idle", "returned", "raised"}
    /\ GotoCall(n)
    /\ UNCHANGED runVars
    /\ UNCHANGED dateVars
    /\ UNCHANGED auxVars

GotoAttemptDirect(o) ==
    /\ GotoAttempt(o)
    /\ UNCHANGED runVars
    /\ UNCHANGED dateVars
    /\ UNCHANGED auxVars

NextNav ==
    \/ \E n \in 0..MaxAttempts : GotoCallDirect(n)
    \/ \E o \in Outcomes : GotoAttemptDirect(o)

SpecNav == Init /\ [][NextNav]_vars

(***************************************************************************)
(* get_output_dir_by_date applied to every raw date the model draws.       *)
(***************************************************************************)
InitDate ==
    /\ raw \in RawInputs
    /\ now \in NowInstants
    /\ padYear \in BOOLEAN
    /\ folder = NoFolder
    /\ NavIdle
    /\ RunIdle
    /\ AuxIdle

BucketDate ==
    /\ folder = NoFolder
    /\ folder' = get_output_dir_by_date(raw, now, padYear)
    /\ UNCHANGED <<raw, now, padYear>>
    /\ UNCHANGED navVars
    /\ UNCHANGED runVars
    /\ UNCHANGED auxVars

NextDate == BucketDate

SpecDate == InitDate /\ [][NextDate]_vars

(***************************************************************************)
(* src/summary.py: generate_summary and main.                              *)
(***************************************************************************)
\* line 32: MAX_RETRIES of summary.py (the scraper has a MAX_RETRIES of its own)
SUMMARY_MAX_RETRIES == 3

\* most articles load_articles returns in the model
MaxArticles == 2

\* most runs of summary.py in the model
MaxSumRuns == 2

\* line 141: the errors retried
SummaryTransientMarkers == {"timeout", "timed out", "connection"}

\* line 106
\* (the literal is Chinese text: "article content is empty, no summary can be made")
Placeholder == "<placeholder summary>"

\* line 49: the default prompt (Chinese text of 21 CJK and 5 other characters)
DefaultPrompt == "<default prompt>"

\* the article files of the date: with a body, with an empty body, without the key
SumArticles ==
    { [url |-> "a1", hasTitle |-> TRUE,  title |-> "Match report",
       hasContent |-> TRUE,  content |-> "Goals and a late winner"],
      [url |-> "a2", hasTitle |-> FALSE, title |-> "",
       hasContent |-> TRUE,  content |-> ""],
      [url |-> "a3", hasTitle |-> TRUE,  title |-> "Match report",
       hasContent |-> FALSE, content |-> ""] }

\* lines 102, 239, 254: article.get("title", <no title>), a default of 3 CJK characters
NoTitle == "<no title>"

ArticleTitle(a) == IF a.hasTitle THEN a.title ELSE NoTitle

\* line 103: article.get("content", "")
ArticleContent(a) == IF a.hasContent THEN a.content ELSE ""

\* lines 87-88: (characters in U+4E00..U+9FFF, other characters) of the texts drawn
CharCount(text) ==
    (  DefaultPrompt             :> <<21, 5>>
    @@ "Match report"            :> <<0, 12>>
    @@ NoTitle                   :> <<3, 0>>
    @@ "Goals and a late winner" :> <<0, 23>>
    @@ "<zh summary>"            :> <<4, 0>>
    @@ ""                        :> <<0, 0>> )[text]

\* line 89: int(chinese_chars / 1.5 + other_chars / 4)
estimate_tokens(count) == (8 * count[1] + 3 * count[2]) \div 12

\* line 109: the characters of the f-string: prompt, a label of 2 CJK and 3 other
\* characters, title, a label of 2 CJK and 4 other characters, content
UserMessageCount(a) ==
    LET p == CharCount(DefaultPrompt)
        t == CharCount(ArticleTitle(a))
        c == CharCount(ArticleContent(a))
    IN  <<p[1] + 2 + t[1] + 2 + c[1], p[2] + 3 + t[2] + 4 + c[2]>>

\* line 125: str.strip() on the texts the API returns
Strip(text) ==
    (  " <zh summary> \n" :> "<zh summary>"
    @@ ""                 :> "" )[text]

ApiErrors == {"Request timed out.", "Connection error.", "Gateway Timeout",
              "Error code: 401"}
\* a Chinese summary of 4 CJK characters between white space
ResponseTexts == {" <zh summary> \n"}
Usages == {0, 900}

\* What one create call meets: it raises (exc # ""), or returns a response whose
\* message content is a text or None, with a usage (0: no usage in the response)
ApiOutcomes ==
    { [exc |-> e, hasText |-> FALSE, text |-> "", usage |-> 0] : e \in ApiErrors }
    \cup { [exc |-> "", hasText |-> TRUE, text |-> t, usage |-> u] :
               t \in ResponseTexts, u \in Usages }
    \cup { [exc |-> "", hasText |-> FALSE, text |-> "", usage |-> u] : u \in Usages }

\* lines 115-125: the exception the try block raises on this outcome, "" for none
\* (None.strip() raises AttributeError inside the try block)
AttemptError(o) ==
    IF o.exc # "" THEN o.exc
    ELSE IF ~o.hasText THEN "'NoneType' object has no attribute 'strip'"
    ELSE ""

\* lines 138-141
IsRetriedAlways(msg) == TRUE

IsRetried(msg) == \E mk \in SummaryTransientMarkers : Contains(Lower(msg), mk)

\* lines 125-134: the value returned for a response with a text
SummaryOf(a, o) ==
    LET summary == Strip(o.text)
    IN  [summary |-> summary,
         tokens  |-> IF o.usage # 0 THEN o.usage
                     ELSE estimate_tokens(UserMessageCount(a))
                          + estimate_tokens(CharCount(summary))]

\* lines 153-181 and 266-267: the text of the digest, as its numbered blocks, the
\* count of its header and the token line
Digest(entries, tokens) ==
    [kind   |-> "digest",
     count  |-> Len(entries),
     blocks |-> [k \in 1..Len(entries) |->
                    [no |-> k, title |-> entries[k].title,
                     summary |-> entries[k].summary, url |-> entries[k].url]],
     tokens |-> tokens]

RECURSIVE SeqsUpTo(_, _)
SeqsUpTo(S, n) ==
    IF n = 0 THEN {<<>>}
    ELSE LET shorter == SeqsUpTo(S, n - 1)
         IN  shorter \cup { Append(q, x) : q \in { q0 \in shorter : Len(q0) = n - 1 },
                                            x \in S }

ArticleLists == SeqsUpTo(SumArticles, MaxArticles)

SumStopped == {"idle", "returned", "done", "exit1"}

ResetGs ==
    /\ gsPc' = "idle"
    /\ gsAttempt' = 0
    /\ gsCalls' = 0
    /\ gsLast' = NoApiOutcome
    /\ gsAllTransient' = TRUE
    /\ gsValue' = NoGsValue

\* main, lines 184-236: the early returns, then the loop is entered
SummaryStart(arts, force, hasKey) ==
    /\ sumPc \in SumStopped
    /\ sumRunNo < MaxSumRuns
    /\ sumRunNo' = sumRunNo + 1
    /\ digestAtStart' = digestFile
    /\ apiSent' = {}
    /\ articles_with_summary' = <<>>
    /\ total_tokens' = 0
    /\ sumIdx' = 1
    /\ IF ~hasKey \/ (digestFile.kind # "absent" /\ ~force)
       THEN /\ sum_articles' = <<>>
            /\ sumPc' = "returned"
            /\ exitCode' = 0
       ELSE /\ sum_articles' = arts
            /\ IF arts = <<>>
               THEN sumPc' = "returned" /\ exitCode' = 0
               ELSE sumPc' = "loop" /\ exitCode' = NoValue
    /\ UNCHANGED digestFile
    /\ UNCHANGED gsVars
    /\ UNCHANGED notSummary

\* lines 243 -> 102-111: generate_summary is entered; empty content returns at once
GenerateCallNoShortCut ==
    /\ sumPc = "loop"
    /\ sumIdx <= Len(sum_articles)
    /\ sumPc' = "gs"
    /\ gsAttempt' = 0
    /\ gsCalls' = 0
    /\ gsLast' = NoApiOutcome
    /\ gsAllTransient' = TRUE
    /\ gsPc' = "loop"
    /\ gsValue' = NoGsValue
    /\ UNCHANGED <<sum_articles, sumIdx, articles_with_summary, total_tokens, digestFile,
                   digestAtStart, apiSent, exitCode, sumRunNo>>
    /\ UNCHANGED notSummary

GenerateCall ==
    /\ sumPc = "loop"
    /\ sumIdx <= Len(sum_articles)
    /\ sumPc' = "gs"
    /\ gsAttempt' = 0
    /\ gsCalls' = 0
    /\ gsLast' = NoApiOutcome
    /\ gsAllTransient' = TRUE
    /\ IF ArticleContent(sum_articles[sumIdx]) = ""
       THEN gsPc' = "returned" /\ gsValue' = [summary |-> Placeholder, tokens |-> 0]
       ELSE gsPc' = "loop" /\ gsValue' = NoGsValue
    /\ UNCHANGED <<sum_articles, sumIdx, articles_with_summary, total_tokens, digestFile,
                   digestAtStart, apiSent, exitCode, sumRunNo>>
    /\ UNCHANGED notSummary

\* lines 113-150: one iteration of `for attempt in range(MAX_RETRIES)`, and the raise
\* after the loop
ApiAttempt(o) ==
    /\ sumPc = "gs"
    /\ gsPc = "loop"
    /\ gsAttempt < SUMMARY_MAX_RETRIES
    /\ gsCalls' = gsCalls + 1
    /\ apiSent' = apiSent \cup {sumIdx}
    /\ gsLast' = o
    /\ gsAllTransient' =
           (gsAllTransient /\ o.exc # ""
               /\ \E mk \in {"timeout", "timed out", "connection"} :
                      Contains(Lower(o.exc), mk))
    /\ LET err == AttemptError(o)
       IN  IF err = ""
           THEN /\ gsPc' = "returned"
                /\ gsValue' = SummaryOf(sum_articles[sumIdx], o)
                /\ UNCHANGED gsAttempt
           ELSE IF IsRetried(err)
           THEN /\ gsAttempt' = gsAttempt + 1
                /\ gsPc' = IF gsAttempt + 1 = SUMMARY_MAX_RETRIES THEN "raised" ELSE "loop"
                /\ UNCHANGED gsValue
           ELSE /\ gsPc' = "raised"
                /\ UNCHANGED <<gsAttempt, gsValue>>
    /\ UNCHANGED <<sumPc, sum_articles, sumIdx, articles_with_summary, total_tokens,
                   digestFile, digestAtStart, exitCode, sumRunNo>>
    /\ UNCHANGED notSummary

\* lines 243-257: the summary returned is counted and appended
SummaryAppend ==
    /\ sumPc = "gs"
    /\ gsPc = "returned"
    /\ total_tokens' = total_tokens + gsValue.tokens
    /\ articles_with_summary' =
           Append(articles_with_summary,
                  [title   |-> ArticleTitle(sum_articles[sumIdx]),
                   url     |-> sum_articles[sumIdx].url,
                   summary |-> gsValue.summary])
    /\ sumIdx' = sumIdx + 1
    /\ sumPc' = "loop"
    /\ ResetGs
    /\ UNCHANGED <<sum_articles, digestFile, digestAtStart, apiSent, exitCode, sumRunNo>>
    /\ UNCHANGED notSummary

\* lines 245-251: SummaryGenerationError ends the process with sys.exit(1)
SummaryFailGoesOn ==
    /\ sumPc = "gs"
    /\ gsPc = "raised"
    /\ sumIdx' = sumIdx + 1
    /\ sumPc' = "loop"
    /\ ResetGs
    /\ UNCHANGED <<sum_articles, articles_with_summary, total_tokens, digestFile,
                   digestAtStart, apiSent, exitCode, sumRunNo>>
    /\ UNCHANGED notSummary

SummaryFail ==
    /\ sumPc = "gs"
    /\ gsPc = "raised"
    /\ sumPc' = "exit1"
    /\ exitCode' = 1
    /\ ResetGs
    /\ UNCHANGED <<sum_articles, sumIdx, articles_with_summary, total_tokens, digestFile,
                   digestAtStart, apiSent, sumRunNo>>
    /\ UNCHANGED notSummary

\* lines 262-277: the digest is formatted and written, main returns
WriteDigest ==
    /\ sumPc = "loop"
    /\ sumIdx > Len(sum_articles)
    /\ digestFile' = Digest(articles_with_summary, total_tokens)
    /\ sumPc' = "done"
    /\ exitCode' = 0
    /\ UNCHANGED <<sum_articles, sumIdx, articles_with_summary, total_tokens,
                   digestAtStart, apiSent, sumRunNo>>
    /\ UNCHANGED gsVars
    /\ UNCHANGED notSummary

NextSummary ==
    \/ \E arts \in ArticleLists, force \in BOOLEAN, hasKey \in BOOLEAN :
           SummaryStart(arts, force, hasKey)
    \/ GenerateCall
    \/ \E o \in ApiOutcomes : ApiAttempt(o)
    \/ SummaryAppend
    \/ SummaryFail
    \/ WriteDigest

SpecSummary == Init /\ [][NextSummary]_vars

(***************************************************************************)
(* src/send.py: main (the webhook post with its retries).                  *)
(***************************************************************************)
\* line 131
send_max_retries == 3

\* line 132
delay_seconds == 10

\* most runs of send.py in the model
MaxSendRuns == 2

\* What one send_to_feishu call meets: it returns the response text (kind = ""), it
\* raises urllib.error.URLError (HTTPError is a subclass), or it raises an exception
\* of another class (http.client.RemoteDisconnected comes out of getresponse unwrapped)
PostOutcomes ==
    { [kind |-> "", msg |-> ""],
      [kind |-> "URLError", msg |-> "<urlopen error timed out>"],
      [kind |-> "URLError", msg |-> "HTTP Error 500: Internal Server Error"],
      [kind |-> "URLError", msg |-> "HTTP Error 400: Bad Request"],
      [kind |-> "RemoteDisconnected",
       msg  |-> "Remote end closed connection without response"] }

\* the digest of yesterday as send.py may find it
SendDigests ==
    { AbsentDigest,
      Digest(<<[title |-> "Match report", url |-> "a1", summary |-> "Summary"]>>, 900) }

\* lines 146-148: whether time.sleep follows the failure of this attempt
SleepsAfterAlways(att) == TRUE

SleepsAfter(att) == att < send_max_retries

SendStopped == {"idle", "done", "raised"}

\* lines 110-133: the webhook address and the digest file are read, the loop is entered
SendStart(hasWebhook) ==
    /\ sendPc \in SendStopped
    /\ sendRuns < MaxSendRuns
    /\ sendRuns' = sendRuns + 1
    /\ sendAttempt' = 1
    /\ posts' = 0
    /\ slept' = 0
    /\ last_error' = ""
    /\ postLog' = <<>>
    /\ IF ~hasWebhook
       THEN /\ sendPc' = "raised"
            /\ sendRaised' = [kind |-> "RuntimeError", msg |-> "FEISHU_WEBHOOK_URL not set"]
       ELSE IF digestFile.kind = "absent"
       THEN /\ sendPc' = "raised"
            /\ sendRaised' = [kind |-> "FileNotFoundError", msg |-> "summary file"]
       ELSE /\ sendPc' = "loop"
            /\ sendRaised' = NoException
    /\ UNCHANGED notSend

\* lines 135-156: one iteration of `for attempt in range(1, max_retries + 1)`, and the
\* else clause of the loop
PostAttempt(o) ==
    /\ sendPc = "loop"
    /\ sendAttempt <= send_max_retries
    /\ posts' = posts + 1
    /\ postLog' = Append(postLog, o)
    /\ IF o.kind = ""
       THEN /\ sendPc' = "done"
            /\ UNCHANGED <<sendAttempt, slept, last_error, sendRaised>>
       ELSE IF o.kind = "URLError"
       THEN /\ last_error' = o.msg
            /\ slept' = IF SleepsAfter(sendAttempt) THEN slept + delay_seconds ELSE slept
            /\ sendAttempt' = sendAttempt + 1
            /\ IF sendAttempt = send_max_retries
               THEN /\ sendPc' = "raised"
                    /\ sendRaised' = [kind |-> "RuntimeError", msg |-> o.msg]
               ELSE UNCHANGED <<sendPc, sendRaised>>
       ELSE /\ sendPc' = "raised"
            /\ sendRaised' = o
            /\ UNCHANGED <<sendAttempt, slept, last_error>>
    /\ UNCHANGED sendRuns
    /\ UNCHANGED notSend

InitSend ==
    /\ raw = AbsentRaw
    /\ now = RunNow
    /\ padYear = FALSE
    /\ folder = NoFolder
    /\ NavIdle
    /\ RunIdle
    /\ GsIdle
    /\ SumNoRun
    /\ digestFile \in SendDigests
    /\ SendIdle
    /\ RestIdle

NextSend ==
    \/ \E hasWebhook \in BOOLEAN : SendStart(hasWebhook)
    \/ \E o \in PostOutcomes : PostAttempt(o)

SpecSend == InitSend /\ [][NextSend]_vars

(***************************************************************************)
(* get_article_links, src/scraper.py lines 324-408, on the anchors of the  *)
(* news page. A text is its name, its length and the number of white-space *)
(* characters around it (what str.strip() removes).                        *)
(***************************************************************************)
\* most anchors on the page in the model
MaxAnchors == 3

\* lines 394 and 397: a title needs more than 10 characters
TitleMin == 10

\* line 400: title[:200]
TitleCut == 200

HrefU1      == "https://www.nytimes.com/athletic/101/2026/02/05/derby/"
HrefU2      == "https://www.nytimes.com/athletic/102/2026/02/05/cup/"
HrefTeam    == "https://www.nytimes.com/athletic/team/arsenal/"
HrefPodcast == "https://www.nytimes.com/athletic/103/2026/02/05/podcast/the-week/"

\* line 360: article_url_pattern.search(href), on the addresses drawn
MatchesArticlePattern(href) == href \in {HrefU1, HrefU2, HrefPodcast}

\* line 374
exclude_patterns ==
    {"/login", "/subscribe", "/account", "/author/", "/team/", "/league/", "/podcast/"}

\* line 375: pattern in href, on the addresses drawn
HrefContains(href, pattern) ==
    <<href, pattern>> \in { <<HrefTeam, "/team/">>, <<HrefPodcast, "/podcast/">> }

EmptyText == [id |-> "", len |-> 0, pad |-> 0]
TLong     == [id |-> "headline", len |-> 42, pad |-> 2]
TPadded   == [id |-> "nine chars", len |-> 13, pad |-> 4]
TShort    == [id |-> "live", len |-> 4, pad |-> 0]
TTen      == [id |-> "ten chars", len |-> 10, pad |-> 0]
TEleven   == [id |-> "eleven chars", len |-> 11, pad |-> 0]
TLine     == [id |-> "first line", len |-> 30, pad |-> 0]
THuge     == [id |-> "long line", len |-> 250, pad |-> 0]

\* str.strip()
StripText(t) == [id |-> t.id, len |-> t.len - t.pad, pad |-> 0]

\* the slice t[:n]
CutText(t, n) == [t EXCEPT !.len = IF t.len < n THEN t.len ELSE n]

\* An anchor: its href ("" for none), the heading inside it (none, one with a text, or
\* one whose read raises), and link.inner_text() (its lines, or the read raises)
Anchors ==
    { [href |-> HrefU1, heading |-> "none", headingText |-> EmptyText,
       textRaises |-> FALSE, lines |-> <<>>],
      [href |-> HrefU1, heading |-> "text", headingText |-> TLong,
       textRaises |-> FALSE, lines |-> <<>>],
      [href |-> HrefU1, heading |-> "none", headingText |-> EmptyText,
       textRaises |-> FALSE, lines |-> <<TShort, TLine>>],
      [href |-> HrefU2, heading |-> "text", headingText |-> TPadded,
       textRaises |-> FALSE, lines |-> <<TLine>>],
      [href |-> HrefU2, heading |-> "raises", headingText |-> EmptyText,
       textRaises |-> FALSE, lines |-> <<TTen, THuge>>],
      [href |-> HrefU2, heading |-> "text", headingText |-> EmptyText,
       textRaises |-> FALSE, lines |-> <<TEleven>>],
      [href |-> HrefU2, heading |-> "none", headingText |-> EmptyText,
       textRaises |-> TRUE, lines |-> <<>>],
      [href |-> HrefTeam, heading |-> "text", headingText |-> TLong,
       textRaises |-> FALSE, lines |-> <<>>],
      [href |-> HrefPodcast, heading |-> "text", headingText |-> TLong,
       textRaises |-> FALSE, lines |-> <<>>],
      [href |-> "", heading |-> "text", headingText |-> TLong,
       textRaises |-> FALSE, lines |-> <<>>] }

\* lines 379-386: the text of the heading inside the anchor, "" without one or when
\* reading it raises
HeadingTitle(a) ==
    IF a.heading = "text" THEN StripText(a.headingText) ELSE EmptyText

\* lines 391-395: the first line of the anchor's text that, stripped, is longer than
\* 10 characters
LinkTextTitle(a) ==
    LET Meaningful(l) == StripText(l).len # 0 /\ StripText(l).len > TitleMin
        lines == SelectSeq(a.lines, Meaningful)
    IN  IF lines # <<>> THEN StripText(lines[1]) ELSE EmptyText

\* lines 378-395
TitleOf(a) ==
    IF HeadingTitle(a).len # 0 THEN HeadingTitle(a) ELSE LinkTextTitle(a)

\* line 392 inside the try of line 366: link.inner_text() raises, the anchor is skipped
AnchorRaises(a) == HeadingTitle(a).len = 0 /\ a.textRaises

\* line 368: href in seen_urls
AlreadySeenNever(href, seen_urls) == FALSE

AlreadySeen(href, seen_urls) == href \in seen_urls

\* lines 365-404: the loop over all_links from position k on
RECURSIVE ScanLinks(_, _, _)
ScanLinks(anchors, k, acc) ==
    IF k > Len(anchors) THEN acc
    ELSE LET a == anchors[k]
             title == TitleOf(a)
             after ==
                 IF a.href = "" \/ AlreadySeen(a.href, acc.seen_urls) THEN acc
                 ELSE IF ~MatchesArticlePattern(a.href) THEN acc
                 ELSE IF \E pattern \in exclude_patterns : HrefContains(a.href, pattern)
                 THEN acc
                 ELSE IF AnchorRaises(a) THEN acc
                 ELSE IF title.len # 0 /\ title.len > TitleMin
                 THEN [articles  |-> Append(acc.articles,
                                            [title |-> CutText(title, TitleCut),
                                             url |-> a.href]),
                       seen_urls |-> acc.seen_urls \cup {a.href},
                       from      |-> Append(acc.from, k)]
                 ELSE acc
         IN  ScanLinks(anchors, k + 1, after)

\* lines 356-408
get_article_links(anchors) ==
    ScanLinks(anchors, 1, [articles |-> <<>>, seen_urls |-> {}, from |-> <<>>])

\* lines 324-408: the news page loaded, its anchors are scanned
LinksReturn ==
    /\ linkPc = "idle"
    /\ linkPc' = "returned"
    /\ link_articles' = get_article_links(all_links).articles
    /\ linkFrom' = get_article_links(all_links).from
    /\ UNCHANGED all_links
    /\ UNCHANGED notLinks

\* lines 329-331: the news page did not load
LinksPageFails ==
    /\ linkPc = "idle"
    /\ linkPc' = "returned"
    /\ link_articles' = <<>>
    /\ linkFrom' = <<>>
    /\ UNCHANGED all_links
    /\ UNCHANGED notLinks

InitLinks ==
    /\ raw = AbsentRaw
    /\ now = RunNow
    /\ padYear = FALSE
    /\ folder = NoFolder
    /\ NavIdle
    /\ RunIdle
    /\ GsIdle
    /\ SumIdle
    /\ SendIdle
    /\ linkPc = "idle"
    /\ all_links \in SeqsUpTo(Anchors, MaxAnchors)
    /\ link_articles = <<>>
    /\ linkFrom = <<>>
    /\ ParasIdle
    /\ ClockIdle

NextLinks ==
    \/ LinksReturn
    \/ LinksPageFails

SpecLinks == InitLinks /\ [][NextLinks]_vars

(***************************************************************************)
(* extract_article_content, src/scraper.py lines 499-547: the paragraphs   *)
(* of the article page. A p element is: whether it is a direct child of    *)
(* div.article-content-container, its class attribute, and its text (name, *)
(* length, surrounding white space, and the lowered first 50 characters of *)
(* the stripped text), whose read may raise. A page without the container  *)
(* is a page without p elements under it.                                  *)
(***************************************************************************)
\* most p elements under the container in the model
MaxParas == 3

\* line 512: the primary strategy keeps texts longer than 10 characters
ParaMin == 10

\* line 538: the fallback keeps texts longer than 20 characters
FallbackMin == 20

\* line 531
skip_classes == {"ImageCaption", "ImageCredit", "ad-slug", "showcase"}

\* line 540
skip_texts == {"advertisement", "follow", "twitter", "@", "getty images", "photo:"}

\* line 532: skip in p_class, on the class attributes drawn
ClassContains(p_class, skip) ==
    <<p_class, skip>> \in
        { <<"Figure_ImageCaption__x1", "ImageCaption">>,
          <<"Figure_ImageCredit__y2", "ImageCredit">>,
          <<"ad-slug", "ad-slug">>,
          <<"showcase-link-title", "showcase">> }

\* line 541: skip.lower() in text.lower()[:50], on the texts drawn
HeadContains(head, skip) ==
    <<head, skip>> \in
        { <<"advertisement: story continues below", "advertisement">>,
          <<"(photo: shaun botterill / getty images)", "photo:">>,
          <<"(photo: shaun botterill / getty images)", "getty images">> }

PBody    == [id |-> "body", len |-> 122, pad |-> 2, head |-> "goals and a late winner"]
PLede    == [id |-> "lede", len |-> 90, pad |-> 0, head |-> "the derby had it all"]
PMid     == [id |-> "mid", len |-> 15, pad |-> 0, head |-> "what a finish."]
PTiny    == [id |-> "tiny", len |-> 12, pad |-> 4, head |-> "so close"]
PAdvert  == [id |-> "advert", len |-> 36, pad |-> 0,
             head |-> "advertisement: story continues below"]
PCaption == [id |-> "caption", len |-> 60, pad |-> 0, head |-> "the winner celebrates"]
PCredit  == [id |-> "credit", len |-> 39, pad |-> 0,
             head |-> "(photo: shaun botterill / getty images)"]
NoText   == [id |-> "", len |-> 0, pad |-> 0, head |-> ""]

ParaElements ==
    { [direct |-> TRUE,  hasClass |-> FALSE, class |-> "", textRaises |-> FALSE,
       text |-> PBody],
      [direct |-> TRUE,  hasClass |-> FALSE, class |-> "", textRaises |-> FALSE,
       text |-> PMid],
      [direct |-> TRUE,  hasClass |-> FALSE, class |-> "", textRaises |-> FALSE,
       text |-> PTiny],
      [direct |-> TRUE,  hasClass |-> FALSE, class |-> "", textRaises |-> TRUE,
       text |-> NoText],
      [direct |-> TRUE,  hasClass |-> TRUE,  class |-> "Figure_ImageCaption__x1",
       textRaises |-> FALSE, text |-> PCaption],
      [direct |-> TRUE,  hasClass |-> TRUE,  class |-> "lede", textRaises |-> FALSE,
       text |-> PLede],
      [direct |-> FALSE, hasClass |-> FALSE, class |-> "", textRaises |-> FALSE,
       text |-> PBody],
      [direct |-> FALSE, hasClass |-> FALSE, class |-> "", textRaises |-> FALSE,
       text |-> PAdvert],
      [direct |-> FALSE, hasClass |-> TRUE,  class |-> "Figure_ImageCaption__x1",
       textRaises |-> FALSE, text |-> PCaption],
      [direct |-> FALSE, hasClass |-> TRUE,  class |-> "Figure_ImageCredit__y2",
       textRaises |-> FALSE, text |-> PCaption],
      [direct |-> FALSE, hasClass |-> TRUE,  class |-> "ad-slug", textRaises |-> FALSE,
       text |-> PLede],
      [direct |-> FALSE, hasClass |-> TRUE,  class |-> "showcase-link-title",
       textRaises |-> FALSE, text |-> PLede],
      [direct |-> FALSE, hasClass |-> FALSE, class |-> "", textRaises |-> FALSE,
       text |-> PCredit] }

Positions(q) == [k \in 1..Len(q) |-> k]

\* lines 503-515: div.article-content-container > p:not([class]), texts longer than 10
PrimaryParagraphs(paras) ==
    LET Taken(k) ==
            /\ paras[k].direct
            /\ ~paras[k].hasClass
            /\ ~paras[k].textRaises
            /\ StripText(paras[k].text).len # 0
            /\ StripText(paras[k].text).len > ParaMin
    IN  SelectSeq(Positions(paras), Taken)

\* lines 520-544: every p under the container, but for the skipped classes, the short
\* texts and the texts that start like boilerplate
FallbackParagraphs(paras) ==
    LET p_class(k) == IF paras[k].hasClass THEN paras[k].class ELSE ""
        Taken(k) ==
            /\ ~\E skip \in skip_classes : ClassContains(p_class(k), skip)
            /\ ~paras[k].textRaises
            /\ StripText(paras[k].text).len # 0
            /\ StripText(paras[k].text).len > FallbackMin
            /\ ~\E skip \in skip_texts : HeadContains(paras[k].text.head, skip)
    IN  SelectSeq(Positions(paras), Taken)

\* line 518: if not paragraphs
FallbackNeededAlways(found) == TRUE

FallbackNeeded(found) == found = <<>>

\* lines 499-547
ExtractParagraphs ==
    /\ paraPc = "idle"
    /\ paraPc' = "returned"
    /\ LET primary == PrimaryParagraphs(page_paras)
           from == IF FallbackNeeded(primary)
                   THEN primary \o FallbackParagraphs(page_paras)
                   ELSE primary
       IN  /\ primaryFound' = Len(primary)
           /\ fallbackRan' = FallbackNeeded(primary)
           /\ paraFrom' = from
           /\ paragraphs' = [k \in 1..Len(from) |->
                                 [id  |-> page_paras[from[k]].text.id,
                                  len |-> StripText(page_paras[from[k]].text).len]]
    /\ UNCHANGED page_paras
    /\ UNCHANGED notParas

InitParas ==
    /\ raw = AbsentRaw
    /\ now = RunNow
    /\ padYear = FALSE
    /\ folder = NoFolder
    /\ NavIdle
    /\ RunIdle
    /\ GsIdle
    /\ SumIdle
    /\ SendIdle
    /\ LinksIdle
    /\ paraPc = "idle"
    /\ page_paras \in SeqsUpTo(ParaElements, MaxParas)
    /\ paragraphs = <<>>
    /\ paraFrom = <<>>
    /\ fallbackRan = FALSE
    /\ primaryFound = 0
    /\ ClockIdle

NextParas == ExtractParagraphs

SpecParas == InitParas /\ [][NextParas]_vars

(***************************************************************************)
(* The time of day of get_output_dir_by_date (lines 98 and 111-123) over   *)
(* every hour and minute of the 12-hour clock.                             *)
(***************************************************************************)
\* (\d{1,2}) of time_pattern: the hours of the 12-hour clock, with and without a
\* leading zero, and beside them 0 and 13
ClockHourForms ==
    { IntDigits(h) : h \in 0..13 } \cup { Pad2(h) : h \in 1..9 }

\* (\d{2}) of time_pattern: the minutes of an hour
ClockMinuteForms == { Pad2(m) : m \in 0..59 }

\* (am|pm) of time_pattern under re.IGNORECASE
ClockWords == {"am", "AM", "pm", "Pm"}

ClockMatches ==
    [m : {TRUE}, hour : ClockHourForms, minute : ClockMinuteForms, ampm : ClockWords]

\* lines 111-123
ConvertTime ==
    /\ clockHour = 0 - 1
    /\ clockHour' = ParsedHour(clockIn)
    /\ clockMinute' = ParsedMinute(clockIn)
    /\ UNCHANGED clockIn
    /\ UNCHANGED notClock

InitClock ==
    /\ raw = AbsentRaw
    /\ now = RunNow
    /\ padYear = FALSE
    /\ folder = NoFolder
    /\ NavIdle
    /\ RunIdle
    /\ GsIdle
    /\ SumIdle
    /\ SendIdle
    /\ LinksIdle
    /\ ParasIdle
    /\ clockIn \in ClockMatches \cup {NoMatch}
    /\ clockHour = 0 - 1
    /\ clockMinute = 0 - 1

NextClock == ConvertTime

SpecClock == InitClock /\ [][NextClock]_vars

(***************************************************************************)
(* Properties of goto_with_retry (checked under SpecNav).                  *)
(***************************************************************************)
NavEnded == navPc \in {"returned", "raised"}

\* C1: when every attempt of a call ended in a transient outcome (a response of
\* status >= 500, a disguised error page, a timeout / net:: / navigation exception),
\* page.goto was invoked exactly max_retries times and the call returned False.
C1_TransientExhausts ==
    (NavEnded /\ allTransient)
        => (navPc = "returned" /\ navReturn = "False" /\ gotoCalls = max_retries)

\* an exception whose lower-cased message holds none of the three markers
FatalException(o) ==
    /\ o.exc # ""
    /\ ~Contains(Lower(o.exc), "timeout")
    /\ ~Contains(Lower(o.exc), "net::")
    /\ ~Contains(Lower(o.exc), "navigation")

\* C2: an attempt on which page.goto raises an exception that is not transient ends
\* the call with that exception on the same attempt, whatever the attempt number,
\* and page.goto is not invoked again by that call.
C2_FatalPropagates ==
    [][ /\ (navPc = "loop" /\ gotoCalls' = gotoCalls + 1 /\ FatalException(lastOutcome'))
            => (navPc' = "raised" /\ navReturn' = NoValue /\ attempt' = attempt)
        /\ (navPc = "raised")
            => (gotoCalls' = gotoCalls \/ (gotoCalls' = 0 /\ attempt' = 0)) ]_vars

\* C2 witness: the exception came on the second of three attempts
C2_Witness ==
    /\ navPc = "raised"
    /\ max_retries = 3
    /\ gotoCalls = 2
    /\ attempt = 1
    /\ FatalException(lastOutcome)

\* C3: the call never returns True on an attempt whose page is a disguised error
\* page (marker in the title, or short body with an error phrase), also when the
\* other signal of the page cannot be read.
C3_NoSuccessOnErrorPage ==
    (navPc = "returned" /\ navReturn = "True") => ~DisguisedErrorPage(lastOutcome)

(***************************************************************************)
(* Properties of get_output_dir_by_date (checked under SpecDate).          *)
(***************************************************************************)
Bucketed == folder # NoFolder

\* C4: the bucket date is always a string of exactly 8 digits.
C4_EightDigits ==
    Bucketed => (Len(folder) = 8 /\ \A k \in 1..Len(folder) : folder[k] \in 0..9)

\* the month of a month word, by its first three letters whatever the case
MonthOfWord(word) ==
    CASE word = "Jan" -> 1
      [] word = "Feb" -> 2
      [] word = "March" -> 3
      [] word = "OCT" -> 10
      [] word = "Dec" -> 12
      [] OTHER -> 0

\* the structured pattern matched and its components are those of a real date and
\* time: a day of the month, an hour of the 12-hour clock, an offset of a real zone,
\* a year inside datetime's limits (the out-of-range components are C4's cases)
StructuredValid(r) ==
    /\ ~r.absent
    /\ r.date.m
    /\ MonthOfWord(r.date.mon) \in 1..12
    /\ DigitsToInt(r.date.year) > MINYEAR
    /\ DigitsToInt(r.date.year) < MAXYEAR
    /\ DigitsToInt(r.date.day) >= 1
    /\ DigitsToInt(r.date.day) <= DaysInMonth(DigitsToInt(r.date.year), MonthOfWord(r.date.mon))
    /\ r.time.m => (DigitsToInt(r.time.hour) \in 1..12 /\ DigitsToInt(r.time.minute) \in 0..59)
    /\ r.tz.m => DigitsToInt(r.tz.off) <= 14

\* the instant UTC = (year, month, day, hour24, minute) - offsetHours, as day and second
ClaimedUtc(r) ==
    LET h12  == IF r.time.m THEN DigitsToInt(r.time.hour) ELSE 12
        isPm == r.time.m /\ r.time.ampm \in {"pm", "PM"}
        h24  == (h12 % 12) + (IF isPm THEN 12 ELSE 0)
        mi   == IF r.time.m THEN DigitsToInt(r.time.minute) ELSE 0
        off  == IF ~r.tz.m THEN 0
                ELSE IF r.tz.sign = "+" THEN DigitsToInt(r.tz.off)
                ELSE 0 - DigitsToInt(r.tz.off)
        hrs  == h24 - off
    IN  [ord |-> ToOrdinal(DigitsToInt(r.date.year), MonthOfWord(r.date.mon),
                           DigitsToInt(r.date.day)) + (hrs \div 24),
         sod |-> (hrs % 24) * 3600 + mi * 60]

\* the ordinal of the calendar day of that instant in Europe/London
ClaimedLondonOrd(r) ==
    LET u == ClaimedUtc(r)
    IN  u.ord + ((u.sod + LondonUtcOffset(u)) \div 86400)

\* a calendar day as the number YYYYMMDD
DayNumber(ord) ==
    LET ymd == FromOrdinal(ord)
    IN  ymd[1] * 10000 + ymd[2] * 100 + ymd[3]

ExampleRaw ==
    [absent |-> FALSE,
     date |-> [m |-> TRUE, mon |-> "Feb", day |-> <<6>>, year |-> <<2, 0, 2, 6>>],
     time |-> [m |-> TRUE, hour |-> <<1, 2>>, minute |-> <<1, 7>>, ampm |-> "am"],
     tz   |-> [m |-> TRUE, sign |-> "+", off |-> <<8>>],
     iso  |-> NoMatch]

\* C5: for every structured raw date with valid components the bucket date is the
\* London calendar day of the instant UTC = (year, month, day, hour24, minute) -
\* offset hours (offset 0 when absent); the example
\* 'Feb. 6, 2026Updated 12:17 am GMT+8' yields 20260205.
C5_BucketIsLondonDay ==
    /\ (Bucketed /\ StructuredValid(raw))
        => (Len(folder) = 8 /\ DigitsToInt(folder) = DayNumber(ClaimedLondonOrd(raw)))
    /\ (Bucketed /\ raw = ExampleRaw) => folder = <<2, 0, 2, 6, 0, 2, 0, 5>>

\* C5 witness: the example of the claim was bucketed, a day earlier than its local date
C5_Witness ==
    /\ raw = ExampleRaw
    /\ folder = <<2, 0, 2, 6, 0, 2, 0, 5>>

\* the structured parse and the ISO-like parse both produce no date
BothParsesFail(r) ==
    /\ ~r.absent
    /\ (~r.date.m \/ MonthOfWord(r.date.mon) = 0)
    /\ ~r.iso.m

\* the London calendar day of the instants the model draws for now
LondonDayOfNow ==
    IF now = [ord |-> ToOrdinal(2026, 2, 6), sod |-> 1800]
    THEN <<2, 0, 2, 6, 0, 2, 0, 6>>
    ELSE <<2, 0, 2, 6, 0, 7, 0, 1>>

\* C6: with the raw date absent, or with both the structured and the ISO-like parse
\* producing no date, the bucket date is the current instant's day in Europe/London.
C6_FallbackIsToday ==
    (Bucketed /\ (raw.absent \/ BothParsesFail(raw))) => folder = LondonDayOfNow

\* C6 witness: a raw date whose month word is no month, bucketed at 23:30 UTC in
\* summer time, when London is already on the next day
C6_Witness ==
    /\ Bucketed
    /\ BothParsesFail(raw)
    /\ raw.date.m
    /\ now = [ord |-> ToOrdinal(2026, 6, 30), sod |-> 84600]
    /\ folder = <<2, 0, 2, 6, 0, 7, 0, 1>>

(***************************************************************************)
(* Properties of the run loop and of the index (checked under Spec).       *)
(***************************************************************************)
\* C7: an article whose record has an error field gets no file and no index entry,
\* and the loop goes on with the next article: every article of the batch is
\* processed by the time the run is done.
C7_ErrorSkipsAndContinues ==
    /\ [](errored \cap (written \cup addedThisRun) = {})
    /\ []((pc \in {"saving", "done"}) => SeqRange(new_articles) \subseteq fetched)
    /\ [][ (pc = "handle" /\ article_data.error /\ pc' # "crashed")
             => /\ files' = files
                /\ index' = index
                /\ indexFile' = indexFile
                /\ pc' = "loop"
                /\ i' = i + 1 ]_vars

\* C7 witness: the first article failed, the second was saved and indexed, run done
C7_Witness ==
    /\ pc = "done"
    /\ Len(new_articles) = 2
    /\ new_articles[1] \in errored
    /\ new_articles[2] \in written \cap addedThisRun
    /\ new_articles[2] \in DOMAIN load_index(indexFile)

\* C8: no URL of the index loaded at run start is navigated to in the run; until
\* the run saves the index, no URL of the index on disk has been fetched by it.
C8_IndexedNotFetched ==
    /\ fetched \cap DOMAIN loadedIndex = {}
    /\ (pc \in {"loop", "nav", "handle", "saved"})
           => fetched \cap DOMAIN load_index(indexFile) = {}

\* C8 witness: a second run whose link list holds a URL the first run indexed,
\* skipped, beside a new one, fetched
C8_Witness ==
    /\ runNo = 2
    /\ \E u \in SeqRange(articles) : u \in DOMAIN loadedIndex /\ loadedIndex[u] = 1
    /\ fetched # {}
    /\ pc = "done"

\* C9: after a crash at any point of a run, the index the next load_index reads is
\* the mapping persisted before the run or the complete new mapping.
C9_CrashKeepsIndex ==
    (pc = "crashed") => (load_index(indexFile) \in {loadedIndex, index})

\* C10: when an exception escapes the article loop, the persisted index holds the
\* URLs the run had already added to the in-memory index.
C10_AbortSavesIndex ==
    (pc = "aborted") => (addedThisRun \subseteq DOMAIN load_index(indexFile))

(***************************************************************************)
(* Properties of generate_summary and summary.py's main (checked under     *)
(* SpecSummary).                                                           *)
(***************************************************************************)
\* an error message holding one of the three markers (matched on the lowered message)
TransientApiError(msg) ==
    \/ Contains(Lower(msg), "timeout")
    \/ Contains(Lower(msg), "timed out")
    \/ Contains(Lower(msg), "connection")

\* a create call made by the step: the count of calls of the call in progress grows
ApiCalled == gsCalls' = gsCalls + 1

\* C11: generate_summary with non-empty content. A create call that fails with a
\* transient error leads to another call unless it was the third, and the third
\* raises SummaryGenerationError, so a call that met only transient errors made exactly
\* SUMMARY_MAX_RETRIES (3) create calls; a create call that fails with any other error
\* raises on that attempt; the first create call that succeeds (a response with a
\* text) returns its stripped text; once the call has returned or raised no further
\* create call is made.
C11_RetryThenRaise ==
    /\ [](gsCalls <= 3)
    /\ []((gsPc = "raised" /\ gsAllTransient) => gsCalls = 3)
    /\ [][ /\ (ApiCalled /\ gsLast'.exc # "" /\ TransientApiError(gsLast'.exc))
               => (gsPc' = IF gsCalls' = 3 THEN "raised" ELSE "loop")
           /\ (ApiCalled /\ gsLast'.exc # "" /\ ~TransientApiError(gsLast'.exc))
               => (gsPc' = "raised" /\ gsAttempt' = gsAttempt)
           /\ (ApiCalled /\ gsLast'.exc = "" /\ gsLast'.hasText)
               => (gsPc' = "returned" /\ gsValue'.summary = "<zh summary>"
                   /\ gsValue'.tokens > 0)
           /\ (gsPc \in {"returned", "raised"}) => ~ApiCalled ]_vars

\* C11 witness: three transient failures, then the error
C11_Witness ==
    /\ gsPc = "raised"
    /\ gsAllTransient
    /\ gsCalls = 3
    /\ gsLast.exc = "Gateway Timeout"

\* C12: summarization is all-or-nothing per run. When generate_summary raises, the
\* next step of the run is the failure exit; at a failure exit the exit status is 1,
\* no article after the failing one was sent to the completion API, and the digest
\* file is what the run found (absent stays absent, an older digest stays as it was);
\* the digest file is written, and a run ends normally after its loop, only when
\* every loaded article has its entry in articles_with_summary.
C12_AllOrNothing ==
    /\ []( sumPc = "exit1"
             => /\ exitCode = 1
                /\ digestFile = digestAtStart
                /\ sumIdx <= Len(sum_articles)
                /\ Len(articles_with_summary) = sumIdx - 1
                /\ \A k \in apiSent : k <= sumIdx )
    /\ [][ /\ (sumPc = "gs" /\ gsPc = "raised") => sumPc' = "exit1"
           /\ (digestFile' # digestFile \/ (sumPc' = "done" /\ sumPc # "done"))
               => /\ sum_articles # <<>>
                  /\ Len(articles_with_summary) = Len(sum_articles)
                  /\ \A k \in 1..Len(sum_articles) :
                         articles_with_summary[k].url = sum_articles[k].url
                  /\ digestFile'.kind = "digest"
                  /\ digestFile'.count = Len(sum_articles) ]_vars

\* C12 witness: a forced second run fails on its first article of two; the digest of
\* the first run is still on disk and the second article was never sent
C12_Witness ==
    /\ sumPc = "exit1"
    /\ sumRunNo = 2
    /\ digestFile.kind = "digest"
    /\ Len(sum_articles) = 2
    /\ sumIdx = 1
    /\ apiSent = {1}

\* content missing or empty, as the article file has it
EmptyContent(a) == ~a.hasContent \/ a.content = ""

\* C13: generate_summary on an article whose content is missing or empty returns the
\* placeholder summary with 0 tokens and makes no create call (the article's position
\* never enters apiSent); the digest a run writes has, at that article's position, an
\* entry with the article's URL and the placeholder as its summary.
C13_EmptyContentPlaceholder ==
    /\ ( (sumPc = "gs" /\ EmptyContent(sum_articles[sumIdx]))
           => /\ gsPc = "returned"
              /\ gsValue = [summary |-> "<placeholder summary>", tokens |-> 0]
              /\ gsCalls = 0 )
    /\ \A k \in 1..Len(sum_articles) :
           EmptyContent(sum_articles[k])
               => /\ k \notin apiSent
                  /\ (k <= Len(articles_with_summary)
                        => articles_with_summary[k].summary = "<placeholder summary>")
                  /\ (sumPc = "done"
                        => /\ digestFile.count = Len(sum_articles)
                           /\ digestFile.blocks[k].no = k
                           /\ digestFile.blocks[k].url = sum_articles[k].url
                           /\ digestFile.blocks[k].summary = "<placeholder summary>")

\* C13 witness: a digest of two articles, the first without the content key, the second
\* summarized by the API; the placeholder cost no tokens
C13_Witness ==
    /\ sumPc = "done"
    /\ Len(sum_articles) = 2
    /\ ~sum_articles[1].hasContent
    /\ digestFile.blocks[1].summary = "<placeholder summary>"
    /\ apiSent = {2}
    /\ digestFile.tokens = 900

(***************************************************************************)
(* Properties of send.py's main (checked under SpecSend).                  *)
(***************************************************************************)
\* a post made by the step
Posted == posts' = posts + 1

\* C14: the webhook post is attempted at most 3 times in a run; a post that succeeds
\* ends the run with no further post; a run whose three posts failed with URLError
\* raises RuntimeError carrying the last of these errors; time.sleep(10) follows a
\* failed post only when another attempt follows, so a run that made n posts, all but
\* possibly the last failed with URLError, has slept 10 seconds n - 1 times at most and
\* never after its third post.
C14_BoundedPosts ==
    /\ [](posts <= 3)
    /\ [](sendPc = "done" => (posts >= 1 /\ slept = 10 * (posts - 1)))
    /\ []((Len(postLog) = 3 /\ \A k \in 1..3 : postLog[k].kind = "URLError")
            => /\ sendPc = "raised"
               /\ sendRaised = [kind |-> "RuntimeError", msg |-> postLog[3].msg]
               /\ slept = 20)
    /\ [](\A k \in 1..Len(postLog) : postLog[k].kind = "" => (k = Len(postLog) /\ sendPc = "done"))
    /\ []((sendPc = "loop") => slept = 10 * posts)
    /\ [][ /\ (sendPc \in {"done", "raised"}) => (~Posted \/ posts' = 1)
           /\ (Posted /\ sendPc' = "done") => (slept' = slept /\ sendRaised' = sendRaised)
           /\ (Posted /\ posts' = 3) => slept' = slept
           /\ (slept' # slept /\ posts' # 0) => (Posted /\ sendPc' = "loop" /\ slept' = slept + 10)
         ]_vars

\* C14 witness: three transport errors, the last an HTTP 500, then the final failure
C14_Witness ==
    /\ sendPc = "raised"
    /\ posts = 3
    /\ slept = 20
    /\ postLog[1].kind = "URLError"
    /\ postLog[2].msg = "<urlopen error timed out>"
    /\ postLog[3].msg = "HTTP Error 500: Internal Server Error"
    /\ sendRaised.kind = "RuntimeError"
    /\ sendRaised.msg = "HTTP Error 500: Internal Server Error"

(***************************************************************************)
(* Properties of the article files and of the index (checked under Spec).  *)
(***************************************************************************)
\* C15: an article file, once written under (bucket date, sanitized title), keeps the
\* record of the article it was written for: no step replaces the record of a file
\* on disk by the record of another URL.
C15_FilesImmutable ==
    [][ \A f \in files :
            \E g \in files' : g.dir = f.dir /\ g.name = f.name /\ g.url = f.url ]_vars

\* C16: across a run the in-memory index only grows: its keys are those loaded at run
\* start and those added in the run, no step of a run removes a key or changes a
\* timestamp, every URL of the loaded index has its original timestamp in the index
\* the run saves, and a key is added only for the article in hand, whose record has no
\* error field.
C16_IndexGrowsOnly ==
    /\ [](DOMAIN index = DOMAIN loadedIndex \cup addedThisRun)
    /\ [](\A u \in DOMAIN loadedIndex : index[u] = loadedIndex[u])
    /\ [](addedThisRun \cap errored = {})
    /\ []((pc = "done")
            => \A u \in DOMAIN loadedIndex :
                   /\ u \in DOMAIN load_index(indexFile)
                   /\ load_index(indexFile)[u] = loadedIndex[u])
    /\ [][ (runNo' = runNo)
             => /\ \A u \in DOMAIN index : u \in DOMAIN index' /\ index'[u] = index[u]
                /\ (index' # index)
                     => /\ ~article_data.error
                        /\ article_data.url = new_articles[i]
                        /\ DOMAIN index' = DOMAIN index \cup {article_data.url} ]_vars

\* C16 witness: the second run ends with a URL indexed by the first run, at its
\* timestamp of the first run, beside a URL added by the second
C16_Witness ==
    /\ pc = "done"
    /\ runNo = 2
    /\ \E u \in DOMAIN loadedIndex : load_index(indexFile)[u] = 1
    /\ \E v \in addedThisRun : load_index(indexFile)[v] = 2

\* C20: a URL enters the in-memory index only in the step after its article file was
\* written in the same iteration, so at every point of a run each URL added to the
\* index in this run has had its article file written; the index file is written only
\* when the loop is over, every new article having been fetched and either reported
\* with an error or saved and indexed.
C20_FileBeforeIndex ==
    /\ [](addedThisRun \subseteq written)
    /\ [][ (addedThisRun' # addedThisRun /\ runNo' = runNo)
             => /\ pc = "saved"
                /\ new_articles[i] \in written
                /\ \E f \in files : f.url = new_articles[i]
                /\ addedThisRun' = addedThisRun \cup {new_articles[i]} ]_vars
    /\ [][ (indexFile' # indexFile)
             => /\ i > Len(new_articles)
                /\ SeqRange(new_articles) \subseteq fetched
                /\ SeqRange(new_articles) \subseteq (errored \cup addedThisRun) ]_vars

\* C20 witness: a run of two new articles, both saved, then indexed, then persisted
C20_Witness ==
    /\ pc = "done"
    /\ Len(new_articles) = 2
    /\ addedThisRun = SeqRange(new_articles)
    /\ written = addedThisRun
    /\ addedThisRun \subseteq DOMAIN load_index(indexFile)

(***************************************************************************)
(* Properties of get_article_links (checked under SpecLinks).              *)
(***************************************************************************)
\* the positions on the page of the anchors of a URL
Occurrences(url) == { k \in 1..Len(all_links) : all_links[k].href = url }

FirstOf(S) == CHOOSE k \in S : \A j \in S : k <= j

\* an anchor from which a title longer than 10 characters can be read: its heading
\* text, or without a heading text the first long enough line of its own text
Titled(a) ==
    \/ a.heading = "text" /\ a.headingText.len - a.headingText.pad > 10
    \/ /\ (a.heading = "text" => a.headingText.len - a.headingText.pad = 0)
       /\ ~a.textRaises
       /\ \E j \in 1..Len(a.lines) : a.lines[j].len - a.lines[j].pad > 10

\* what C17 and its amended form share: no two entries with the same URL, entries in
\* page order, each entry's URL that of the anchor it was taken from, every title
\* non-empty and longer than 10 characters
LinksWellFormed ==
    /\ Len(linkFrom) = Len(link_articles)
    /\ \A j, k \in 1..Len(link_articles) :
           j < k => (link_articles[j].url # link_articles[k].url /\ linkFrom[j] < linkFrom[k])
    /\ \A k \in 1..Len(link_articles) :
           /\ linkFrom[k] \in Occurrences(link_articles[k].url)
           /\ link_articles[k].title.id # ""
           /\ link_articles[k].title.len > 10

\* C17: get_article_links returns a sequence with no two entries of the same URL, in
\* the order the accepted anchors were met, every title non-empty and longer than 10
\* characters, and each URL's entry is taken from the first anchor of that URL on the
\* page.
C17_FirstOccurrenceWins ==
    (linkPc = "returned")
        => /\ LinksWellFormed
           /\ \A k \in 1..Len(link_articles) :
                  linkFrom[k] = FirstOf(Occurrences(link_articles[k].url))

\* C17 amended: as C17, but each URL's entry is taken from the first anchor of that
\* URL on the page from which a title longer than 10 characters can be read (earlier
\* anchors of the URL without such a title are passed over and do not mark the URL
\* as seen).
C17_FirstTitledWins ==
    (linkPc = "returned")
        => /\ LinksWellFormed
           /\ \A k \in 1..Len(link_articles) :
                  LET titled == { j \in Occurrences(link_articles[k].url) :
                                      Titled(all_links[j]) }
                  IN  titled # {} /\ linkFrom[k] = FirstOf(titled)

\* C17 witness: the first anchor of a URL is an image link without text, the second
\* carries the headline; the entry comes from the second, and another URL follows
C17_Witness ==
    /\ linkPc = "returned"
    /\ Len(all_links) = 3
    /\ all_links[1].href = HrefU1
    /\ all_links[2].href = HrefU1
    /\ Len(link_articles) = 2
    /\ linkFrom = <<2, 3>>
    /\ link_articles[1].title.id = "headline"
    /\ link_articles[2].title.len = 200

(***************************************************************************)
(* Properties of the paragraph extraction (checked under SpecParas).       *)
(***************************************************************************)
\* the p elements the primary strategy yields: direct children of the container
\* without a class attribute whose text reads and is longer than 10 characters
PrimaryYield ==
    { k \in 1..Len(page_paras) :
        /\ page_paras[k].direct
        /\ ~page_paras[k].hasClass
        /\ ~page_paras[k].textRaises
        /\ page_paras[k].text.len - page_paras[k].text.pad > 10 }

\* the class attribute marks a caption, a credit, an ad slug or a showcase
SkippedClass(el) ==
    el.hasClass /\ el.class \in {"Figure_ImageCaption__x1", "Figure_ImageCredit__y2",
                                 "ad-slug", "showcase-link-title"}

\* C18: the fallback strategy is run only when the primary strategy yields no
\* paragraph; when the primary strategy yields some, the content is exactly these, in
\* page order; in the fallback no p element whose class holds ImageCaption,
\* ImageCredit, ad-slug or showcase has its text in the content.
C18_FallbackOnlyWhenEmpty ==
    (paraPc = "returned")
        => /\ fallbackRan => PrimaryYield = {}
           /\ (PrimaryYield # {})
                => /\ SeqRange(paraFrom) = PrimaryYield
                   /\ \A j, k \in 1..Len(paraFrom) : j < k => paraFrom[j] < paraFrom[k]
           /\ \A k \in 1..Len(paraFrom) :
                  /\ ~SkippedClass(page_paras[paraFrom[k]])
                  /\ paragraphs[k].id = page_paras[paraFrom[k]].text.id
           /\ Len(paragraphs) = Len(paraFrom)

\* C18 witness: the only direct unclassed paragraph is too short, the fallback runs
\* and takes the nested paragraph but not the caption beside it
C18_Witness ==
    /\ paraPc = "returned"
    /\ fallbackRan
    /\ Len(page_paras) = 3
    /\ page_paras[1].direct /\ ~page_paras[1].hasClass /\ page_paras[1].text.id = "tiny"
    /\ page_paras[2].class = "Figure_ImageCaption__x1" /\ ~page_paras[2].direct
    /\ paraFrom = <<3>>
    /\ paragraphs[1].id = "body"

(***************************************************************************)
(* Properties of the time of day (checked under SpecClock).                *)
(***************************************************************************)
\* the number a string of digits reads as
Reads(ds, n) == ds \in {IntDigits(n), Pad2(n)}

\* C19: for every parsed hour h in 1..12 and minute in 0..59, am maps 12 to 0 and
\* leaves 1..11 as they are, pm maps 12 to 12 and 1..11 to h + 12, the minute is kept,
\* and the hour computed lies in 0..23; without a time both hour and minute are 0.
C19_TwelveHourClock ==
    (clockHour # 0 - 1)
        => IF ~clockIn.m
           THEN clockHour = 0 /\ clockMinute = 0
           ELSE \A h \in 1..12, mi \in 0..59 :
                    (Reads(clockIn.hour, h) /\ Reads(clockIn.minute, mi))
                        => /\ clockMinute = mi
                           /\ clockHour \in 0..23
                           /\ (clockIn.ampm \in {"am", "AM"} /\ h = 12) => clockHour = 0
                           /\ (clockIn.ampm \in {"am", "AM"} /\ h # 12) => clockHour = h
                           /\ (clockIn.ampm \in {"pm", "Pm"} /\ h = 12) => clockHour = 12
                           /\ (clockIn.ampm \in {"pm", "Pm"} /\ h # 12) => clockHour = h + 12

\* C19 witness: "12:59 Pm" is 12:59, not 24:59
C19_Witness ==
    /\ clockIn.m
    /\ clockIn.hour = <<1, 2>>
    /\ clockIn.minute = <<5, 9>>
    /\ clockIn.ampm = "Pm"
    /\ clockHour = 12
    /\ clockMinute = 59

====
